---- MODULE Spec2Model ----
(***************************************************************************)
(* Model of contracts/SealedBidAuction.sol: the sealed-bid auction ledger, *)
(* its lifecycle operations, the three decryption callbacks and refund.    *)
(* Ciphertexts (euint64, eaddress) are modelled by their plaintexts; the   *)
(* decryption oracle is the list of requests issued by the contract, each  *)
(* holding the plaintext of the handle captured when it was requested.     *)
(* The second part models contracts/DeFiContract.sol, the lending contract *)
(* built on the same request/callback pattern; its storage is the record   *)
(* defi.                                                                   *)
(***************************************************************************)
EXTENDS Integers, Sequences, FiniteSets, TLC

\* ---- bounds of the model ----
MaxTime == 2
MaxBids == 2
MaxSessions == 2
MaxWithdrawals == 1
MaxDeliver == 2
MaxRequests == 4
MaxLoanRequests == 5
MaxPool == 1000
\* The width of euint64, scaled down to what the checker's integers hold.
EuintModulus == 1073741824

Addr == {1, 2, 3}
Durations == {0, 1}
ZeroAddr == 0
BidValues == {0, 100, 300}
DepositValues == {0, 200}
Items == {"lot"}

VARIABLES
    admin, auctionItem, startTime, endTime, auctionStarted, auctionEnded,
    isWithdraw, bids, deposits, bidders, highestBid, highestBidder,
    winner, winningAmount, totalWinningAmount, decryptedTotalWinningAmount,
    decryptionRequestIdBidder, decryptionRequestIdAmount,
    decryptionRequestIdTotalAmount,
    now, balance, requests, counterRequest,
    bidValues, announced, netDeposited, sessions, withdrawals, bidCount,
    deliveries,
    defi

auctionVars == <<admin, auctionItem, startTime, endTime, auctionStarted, auctionEnded,
          isWithdraw, bids, deposits, bidders, highestBid, highestBidder,
          winner, winningAmount, totalWinningAmount, decryptedTotalWinningAmount,
          decryptionRequestIdBidder, decryptionRequestIdAmount,
          decryptionRequestIdTotalAmount,
          now, balance, requests, counterRequest,
          bidValues, announced, netDeposited, sessions, withdrawals, bidCount,
          deliveries>>

vars == <<auctionVars, defi>>

\* The outcome of one call: what was called, by whom and with what argument,
\* the revert message ("" when it succeeded), what it transferred and to whom
\* (for getWinnerInfo: what it returned), and the event it emitted.
Call(op, c, arg, err, paid, to, event) ==
    [op |-> op, caller |-> c, arg |-> arg, err |-> err,
     paid |-> paid, to |-> to, event |-> event]

NoCall == Call("none", 0, 0, "", 0, 0, "none")

\* The whole state as one record, so that an operation is a function on it;
\* out is the outcome of the call that produced the record.
World ==
    [admin |-> admin, auctionItem |-> auctionItem, startTime |-> startTime,
     endTime |-> endTime, auctionStarted |-> auctionStarted,
     auctionEnded |-> auctionEnded, isWithdraw |-> isWithdraw, bids |-> bids,
     deposits |-> deposits, bidders |-> bidders, highestBid |-> highestBid,
     highestBidder |-> highestBidder, winner |-> winner,
     winningAmount |-> winningAmount, totalWinningAmount |-> totalWinningAmount,
     decryptedTotalWinningAmount |-> decryptedTotalWinningAmount,
     decryptionRequestIdBidder |-> decryptionRequestIdBidder,
     decryptionRequestIdAmount |-> decryptionRequestIdAmount,
     decryptionRequestIdTotalAmount |-> decryptionRequestIdTotalAmount,
     now |-> now, balance |-> balance, requests |-> requests,
     counterRequest |-> counterRequest, out |-> NoCall,
     bidValues |-> bidValues, announced |-> announced,
     netDeposited |-> netDeposited, sessions |-> sessions,
     withdrawals |-> withdrawals, bidCount |-> bidCount,
     deliveries |-> deliveries]

Commit(W) ==
    /\ admin' = W.admin
    /\ auctionItem' = W.auctionItem
    /\ startTime' = W.startTime
    /\ endTime' = W.endTime
    /\ auctionStarted' = W.auctionStarted
    /\ auctionEnded' = W.auctionEnded
    /\ isWithdraw' = W.isWithdraw
    /\ bids' = W.bids
    /\ deposits' = W.deposits
    /\ bidders' = W.bidders
    /\ highestBid' = W.highestBid
    /\ highestBidder' = W.highestBidder
    /\ winner' = W.winner
    /\ winningAmount' = W.winningAmount
    /\ totalWinningAmount' = W.totalWinningAmount
    /\ decryptedTotalWinningAmount' = W.decryptedTotalWinningAmount
    /\ decryptionRequestIdBidder' = W.decryptionRequestIdBidder
    /\ decryptionRequestIdAmount' = W.decryptionRequestIdAmount
    /\ decryptionRequestIdTotalAmount' = W.decryptionRequestIdTotalAmount
    /\ now' = W.now
    /\ balance' = W.balance
    /\ requests' = W.requests
    /\ bidValues' = W.bidValues
    /\ announced' = W.announced
    /\ netDeposited' = W.netDeposited
    /\ sessions' = W.sessions
    /\ withdrawals' = W.withdrawals
    /\ bidCount' = W.bidCount
    /\ counterRequest' = W.counterRequest
    /\ deliveries' = W.deliveries
    /\ defi' = defi

RevertAfterRequest(W, op, c, arg, err) ==
    [W EXCEPT !.counterRequest = @ + 1,
              !.out = Call(op, c, arg, err, 0, ZeroAddr, "none")]

\* A reverted call: no storage write, no transfer, no event; the caller gets
\* the revert message.
Revert(W, op, c, arg, err) ==
    [W EXCEPT !.out = Call(op, c, arg, err, 0, ZeroAddr, "none")]

\* ---- the state after the constructor ----
InitWorld ==
    [admin |-> ZeroAddr, auctionItem |-> "", startTime |-> 0, endTime |-> 0,
     auctionStarted |-> FALSE, auctionEnded |-> FALSE, isWithdraw |-> FALSE,
     bids |-> [a \in Addr |-> 0], deposits |-> [a \in Addr |-> 0],
     bidders |-> <<>>, highestBid |-> 0, highestBidder |-> ZeroAddr,
     winner |-> ZeroAddr, winningAmount |-> 0, totalWinningAmount |-> 0,
     decryptedTotalWinningAmount |-> 0,
     decryptionRequestIdBidder |-> 0, decryptionRequestIdAmount |-> 0,
     decryptionRequestIdTotalAmount |-> 0,
     now |-> 1, balance |-> 0, requests |-> {}, counterRequest |-> 1,
     out |-> NoCall,
     bidValues |-> <<>>, announced |-> 0, netDeposited |-> [a \in Addr |-> 0],
     sessions |-> 0, withdrawals |-> 0, bidCount |-> 0, deliveries |-> 1]

\* ---- DeFiContract after its constructor ----
\* The deployer is the lender; mappings hold only their non-default entries.
Lender == 3
Borrowers == {1, 2}
EmptyMap == [x \in {} |-> 0]

InitDeFi ==
    [lender |-> Lender, actualPool |-> 0, pool |-> 0,
     packages |-> <<[durationDays |-> 30, ratePercent |-> 6],
                    [durationDays |-> 182, ratePercent |-> 8],
                    [durationDays |-> 365, ratePercent |-> 10]>>,
     creditProfiles |-> EmptyMap, chosenPackage |-> EmptyMap,
     borrowAmounts |-> EmptyMap, totalRepays |-> EmptyMap,
     decryptedTotalRepay |-> EmptyMap, agreed |-> EmptyMap, loans |-> EmptyMap,
     requestToBorrower |-> EmptyMap,
     decryptionRequestIdPool |-> 0, decryptionRequestIdDeposit |-> 0,
     decryptionRequestIdRepay |-> 0, expectedDepositAmounts |-> EmptyMap,
     balance |-> 0, requests |-> {}, counterRequest |-> 1, out |-> NoCall]

InitAt(W) ==
    /\ defi = InitDeFi
    /\ admin = W.admin
    /\ auctionItem = W.auctionItem
    /\ startTime = W.startTime
    /\ endTime = W.endTime
    /\ auctionStarted = W.auctionStarted
    /\ auctionEnded = W.auctionEnded
    /\ isWithdraw = W.isWithdraw
    /\ bids = W.bids
    /\ deposits = W.deposits
    /\ bidders = W.bidders
    /\ highestBid = W.highestBid
    /\ highestBidder = W.highestBidder
    /\ winner = W.winner
    /\ winningAmount = W.winningAmount
    /\ totalWinningAmount = W.totalWinningAmount
    /\ decryptedTotalWinningAmount = W.decryptedTotalWinningAmount
    /\ decryptionRequestIdBidder = W.decryptionRequestIdBidder
    /\ decryptionRequestIdAmount = W.decryptionRequestIdAmount
    /\ decryptionRequestIdTotalAmount = W.decryptionRequestIdTotalAmount
    /\ now = W.now
    /\ balance = W.balance
    /\ requests = W.requests
    /\ bidValues = W.bidValues
    /\ announced = W.announced
    /\ netDeposited = W.netDeposited
    /\ sessions = W.sessions
    /\ withdrawals = W.withdrawals
    /\ bidCount = W.bidCount
    /\ counterRequest = W.counterRequest
    /\ deliveries = W.deliveries

Init == InitAt(InitWorld)

\* ---- the homomorphic operations, on plaintexts ----
FHEge(a, b) == a >= b
FHEgt(a, b) == a > b
FHEselect(c, a, b) == IF c THEN a ELSE b
\* euint64 arithmetic wraps; every sum the auction can form (at most
\* MaxSessions * MaxDeliver winning amounts) is far below the modulus.
FHEadd(a, b) == (a + b) % EuintModulus
FHEsub(a, b) == (a - b) % EuintModulus
FHEmul(a, b) == (a * b) % EuintModulus
FHEdiv(a, b) == a \div b

\* ---- modifiers ----
onlyAdminAnyone(W, c) == TRUE
onlyAdminOrUnset(W, c) == c = W.admin \/ W.admin = ZeroAddr
onlyAdmin(W, c) == c = W.admin

onlyDuringAuctionNoDeadline(W) ==
    /\ W.auctionStarted
    /\ ~W.auctionEnded
    /\ W.now >= W.startTime

onlyDuringAuctionIgnoringEnd(W) ==
    /\ W.auctionStarted
    /\ W.now >= W.startTime
    /\ W.now <= W.endTime

onlyDuringAuction(W) ==
    /\ W.auctionStarted
    /\ ~W.auctionEnded
    /\ W.now >= W.startTime
    /\ W.now <= W.endTime
onlyAfterAuction(W) == W.auctionEnded

\* ---- the decryption oracle ----
\* FHE.requestDecryption: ids come from a counter, and the oracle keeps, for
\* each request, the plaintext of the handle as it was when requested.
NewRequest(id, kind, clear, by) ==
    [id |-> id, kind |-> kind, clear |-> clear, by |-> by, done |-> 0]
RequestIds(W) == {r.id : r \in W.requests}
Request(W, requestId) == CHOOSE r \in W.requests : r.id = requestId
\* FHE.checkSignatures: only a result the oracle produced for a request
\* that was issued carries a valid proof; id 0 stands for any other id.
checkSignatures(W, requestId) == requestId \in RequestIds(W)
\* A delivery is counted. The callbacks are external and the result with its
\* proof is public once delivered, so a delivery can be repeated; the model
\* follows W.deliveries deliveries of one request and then drops it.
Delivered(W, requestId) ==
    LET r == Request(W, requestId) IN
    [W EXCEPT !.requests =
        IF r.done + 1 >= W.deliveries THEN @ \ {r}
        ELSE (@ \ {r}) \cup {[r EXCEPT !.done = @ + 1]}]

\* ---- operations ----
setAuctionItem(W, c, item) ==
    IF ~onlyAdmin(W, c)
    THEN Revert(W, "setAuctionItem", c, 0, "Only admin can call this")
    ELSE [W EXCEPT !.auctionItem = item,
                   !.out = Call("setAuctionItem", c, 0, "", 0, ZeroAddr, "none")]

startAuctionUnguarded(W) == ""

startAuctionErr(W) ==
    IF W.auctionStarted THEN "Auction already started"
    ELSE IF W.admin # ZeroAddr THEN "Admin already set"
    ELSE ""

adminKept(W, c) == W.admin

\* admin = msg.sender
adminAfterStart(W, c) == c

startAuction(W, c, duration) ==
    IF startAuctionErr(W) # ""
    THEN Revert(W, "startAuction", c, duration, startAuctionErr(W))
    ELSE [W EXCEPT !.admin = adminAfterStart(W, c),
                   !.startTime = W.now,
                   !.endTime = W.now + duration,
                   !.auctionStarted = TRUE,
                   !.sessions = @ + 1,
                   !.out = Call("startAuction", c, duration, "", 0, ZeroAddr,
                                 "AuctionStarted")]

placeBidErr(W, value) ==
    IF ~onlyDuringAuction(W) THEN "Auction not active"
    ELSE IF ~(value > 0) THEN "Deposit required"
    ELSE ""

depositOverwritten(W, c, value) == value

\* deposits[msg.sender] += msg.value
depositAfterBid(W, c, value) == W.deposits[c] + value

lastBidder(W, c, isHigher) == c

\* highestBidder = FHE.select(isHigher, newBidder, highestBidder)
newHighestBidder(W, c, isHigher) == FHEselect(isHigher, c, W.highestBidder)

placeBid(W, c, bid, value) ==
    IF placeBidErr(W, value) # ""
    THEN Revert(W, "placeBid", c, bid, placeBidErr(W, value))
    ELSE LET isHigher == FHEgt(bid, W.highestBid) IN
         [W EXCEPT !.highestBid = FHEselect(isHigher, bid, W.highestBid),
                   !.highestBidder = newHighestBidder(W, c, isHigher),
                   !.bids[c] = bid,
                   !.deposits[c] = depositAfterBid(W, c, value),
                   !.bidders = Append(@, c),
                   !.balance = @ + value,
                   !.bidValues = Append(@, bid),
                   !.netDeposited[c] = @ + value,
                   !.bidCount = @ + 1,
                   !.out = Call("placeBid", c, bid, "", 0, ZeroAddr, "none")]

endAuctionUnguarded(W, c) == ""

endAuctionErr(W, c) ==
    IF ~onlyAdmin(W, c) THEN "Only admin can call this"
    ELSE IF ~(W.auctionStarted /\ ~W.auctionEnded) THEN "Cannot end auction"
    ELSE ""

endAuction(W, c) ==
    IF endAuctionErr(W, c) # ""
    THEN Revert(W, "endAuction", c, 0, endAuctionErr(W, c))
    ELSE [W EXCEPT !.auctionEnded = TRUE,
                   !.out = Call("endAuction", c, 0, "", 0, ZeroAddr, "none")]

resetAuctionErrAnyPhase(W, c) ==
    IF ~onlyAdmin(W, c) THEN "Only admin can call this"
    ELSE ""

resetAuctionErr(W, c) ==
    IF ~onlyAdmin(W, c) THEN "Only admin can call this"
    ELSE IF ~onlyAfterAuction(W) THEN "Auction not ended"
    ELSE IF ~W.auctionEnded THEN "Auction is not end"
    ELSE ""

\* The loop over bidders: the bid of every identity in the array is zeroed.
ClearedBids(W) ==
    [a \in Addr |->
        IF \E i \in 1..Len(W.bidders) : W.bidders[i] = a THEN 0 ELSE W.bids[a]]

\* totalWinningAmount = FHE.asEuint64(0); decryptedTotalWinningAmount = 0.
keptAccumulators(W) ==
    [total |-> W.totalWinningAmount, decrypted |-> W.decryptedTotalWinningAmount]

resetAccumulators(W) == [total |-> 0, decrypted |-> 0]

resetAuctionClearingDeposits(W, c) ==
    IF resetAuctionErr(W, c) # ""
    THEN Revert(W, "resetAuction", c, 0, resetAuctionErr(W, c))
    ELSE [W EXCEPT !.auctionStarted = FALSE,
                   !.auctionEnded = FALSE,
                   !.auctionItem = "",
                   !.startTime = 0,
                   !.endTime = 0,
                   !.highestBid = 0,
                   !.highestBidder = ZeroAddr,
                   !.winner = ZeroAddr,
                   !.winningAmount = 0,
                   !.decryptionRequestIdBidder = 0,
                   !.decryptionRequestIdAmount = 0,
                   !.admin = ZeroAddr,
                   !.totalWinningAmount = resetAccumulators(W).total,
                   !.decryptedTotalWinningAmount = resetAccumulators(W).decrypted,
                   !.bids = ClearedBids(W),
                   !.bidders = <<>>,
                   !.deposits = [a \in Addr |-> 0],
                   !.bidValues = <<>>,
                   !.announced = 0,
                   !.out = Call("resetAuction", c, 0, "", 0, ZeroAddr, "none")]

resetAuction(W, c) ==
    IF resetAuctionErr(W, c) # ""
    THEN Revert(W, "resetAuction", c, 0, resetAuctionErr(W, c))
    ELSE [W EXCEPT !.auctionStarted = FALSE,
                   !.auctionEnded = FALSE,
                   !.auctionItem = "",
                   !.startTime = 0,
                   !.endTime = 0,
                   !.highestBid = 0,
                   !.highestBidder = ZeroAddr,
                   !.winner = ZeroAddr,
                   !.winningAmount = 0,
                   !.decryptionRequestIdBidder = 0,
                   !.decryptionRequestIdAmount = 0,
                   !.admin = ZeroAddr,
                   !.totalWinningAmount = resetAccumulators(W).total,
                   !.decryptedTotalWinningAmount = resetAccumulators(W).decrypted,
                   !.bids = ClearedBids(W),
                   !.bidders = <<>>,
                   !.bidValues = <<>>,
                   !.announced = 0,
                   !.out = Call("resetAuction", c, 0, "", 0, ZeroAddr, "none")]

requestDecryptionErrRearm(W, c) ==
    IF ~onlyAdmin(W, c) THEN "Only admin can call this"
    ELSE IF ~onlyAfterAuction(W) THEN "Auction not ended"
    ELSE ""

requestDecryptionErr(W, c) ==
    IF ~onlyAdmin(W, c) THEN "Only admin can call this"
    ELSE IF ~onlyAfterAuction(W) THEN "Auction not ended"
    ELSE IF W.decryptionRequestIdBidder # 0 THEN "Decryption already requested"
    ELSE ""

requestDecryption(W, c) ==
    IF requestDecryptionErr(W, c) # ""
    THEN Revert(W, "requestDecryption", c, 0, requestDecryptionErr(W, c))
    ELSE [W EXCEPT !.decryptionRequestIdBidder = W.counterRequest,
                   !.decryptionRequestIdAmount = W.counterRequest + 1,
                   !.requests = @ \cup
                       {NewRequest(W.counterRequest, "bidder", W.highestBidder, c),
                        NewRequest(W.counterRequest + 1, "amount", W.highestBid, c)},
                   !.counterRequest = @ + 2,
                   !.out = Call("requestDecryption", c, 0, "", 0, ZeroAddr, "none")]

\* if (winningAmount > 0) emit AuctionWinnerAnnounced
announcesAlways(W) == TRUE

bidderAnnounces(W) == W.winningAmount > 0

callbackDecryptBidderErrAnyId(W, requestId) ==
    IF ~checkSignatures(W, requestId) THEN "Invalid signatures"
    ELSE ""

callbackDecryptBidderErr(W, requestId) ==
    IF ~checkSignatures(W, requestId) THEN "Invalid signatures"
    ELSE IF requestId # W.decryptionRequestIdBidder THEN "Invalid request ID"
    ELSE ""

callbackDecryptBidder(W, requestId) ==
    IF callbackDecryptBidderErr(W, requestId) # ""
    THEN Revert(W, "callbackDecryptBidder", ZeroAddr, requestId,
                callbackDecryptBidderErr(W, requestId))
    ELSE LET decryptedBidder == Request(W, requestId).clear
             emits == bidderAnnounces(W)
             D == Delivered(W, requestId) IN
         [D EXCEPT !.winner = decryptedBidder,
                   !.announced = IF emits THEN @ + 1 ELSE @,
                   !.out = Call("callbackDecryptBidder", ZeroAddr, requestId, "",
                                 0, ZeroAddr,
                                 IF emits THEN "AuctionWinnerAnnounced" ELSE "none")]

amountAnnouncesNever(W) == FALSE

\* if (winner != address(0)) emit AuctionWinnerAnnounced
amountAnnounces(W) == W.winner # ZeroAddr

accumulatedIfAnnounced(W, amount) ==
    IF W.winner # ZeroAddr THEN FHEadd(W.totalWinningAmount, amount)
    ELSE W.totalWinningAmount

\* totalWinningAmount = FHE.add(totalWinningAmount, FHE.asEuint64(winningAmount))
accumulated(W, amount) == FHEadd(W.totalWinningAmount, amount)

callbackDecryptAmountErr(W, requestId) ==
    IF ~checkSignatures(W, requestId) THEN "Invalid signatures"
    ELSE IF requestId # W.decryptionRequestIdAmount THEN "Invalid request ID"
    ELSE ""

callbackDecryptAmount(W, requestId) ==
    IF callbackDecryptAmountErr(W, requestId) # ""
    THEN Revert(W, "callbackDecryptAmount", ZeroAddr, requestId,
                callbackDecryptAmountErr(W, requestId))
    ELSE LET decryptedAmount == Request(W, requestId).clear
             emits == amountAnnounces(W)
             D == Delivered(W, requestId) IN
         [D EXCEPT !.winningAmount = decryptedAmount,
                   !.totalWinningAmount = accumulated(W, decryptedAmount),
                   !.isWithdraw = FALSE,
                   !.announced = IF emits THEN @ + 1 ELSE @,
                   !.out = Call("callbackDecryptAmount", ZeroAddr, requestId, "",
                                 0, ZeroAddr,
                                 IF emits THEN "AuctionWinnerAnnounced" ELSE "none")]

withdrawTotalProceedsErrUnlocked(W, c) ==
    IF ~onlyAdmin(W, c) THEN "Only admin can call this"
    ELSE ""

withdrawTotalProceedsErr(W, c) ==
    IF ~onlyAdmin(W, c) THEN "Only admin can call this"
    ELSE IF W.isWithdraw THEN "Decryption already requested"
    ELSE ""

withdrawTotalProceeds(W, c) ==
    IF withdrawTotalProceedsErr(W, c) # ""
    THEN Revert(W, "withdrawTotalProceeds", c, 0, withdrawTotalProceedsErr(W, c))
    ELSE [W EXCEPT !.decryptionRequestIdTotalAmount = W.counterRequest,
                   !.requests = @ \cup
                       {NewRequest(W.counterRequest, "total", W.totalWinningAmount, c)},
                   !.counterRequest = @ + 1,
                   !.withdrawals = @ + 1,
                   !.out = Call("withdrawTotalProceeds", c, 0, "", 0, ZeroAddr,
                                 "none")]

callbackDecryptTotalAmountErrUnfunded(W, requestId) ==
    IF ~checkSignatures(W, requestId) THEN "Invalid signatures"
    ELSE IF requestId # W.decryptionRequestIdTotalAmount THEN "Invalid request ID"
    ELSE ""

callbackDecryptTotalAmountErr(W, requestId) ==
    IF ~checkSignatures(W, requestId) THEN "Invalid signatures"
    ELSE IF requestId # W.decryptionRequestIdTotalAmount THEN "Invalid request ID"
    ELSE IF W.balance < Request(W, requestId).clear THEN "Transfer failed"
    ELSE ""

callbackDecryptTotalAmount(W, requestId) ==
    IF callbackDecryptTotalAmountErr(W, requestId) # ""
    THEN Revert(W, "callbackDecryptTotalAmount", ZeroAddr, requestId,
                callbackDecryptTotalAmountErr(W, requestId))
    ELSE LET decryptedAmount == Request(W, requestId).clear
             D == Delivered(W, requestId) IN
         [D EXCEPT !.decryptedTotalWinningAmount = decryptedAmount,
                   !.totalWinningAmount = 0,
                   !.decryptionRequestIdTotalAmount = 0,
                   !.isWithdraw = TRUE,
                   !.balance = @ - decryptedAmount,
                   !.out = Call("callbackDecryptTotalAmount", ZeroAddr, requestId,
                                 "", decryptedAmount, W.admin,
                                 "TotalProceedsWithdrawn")]

getWinnerInfoErr(W) ==
    IF ~onlyAfterAuction(W) THEN "Auction not ended"
    ELSE IF ~(W.winner # ZeroAddr /\ W.winningAmount > 0)
         THEN "Winner not announced yet"
    ELSE ""

\* A view: it returns (winner, winningAmount), given as (to, paid) of the
\* outcome, and changes nothing.
getWinnerInfo(W) ==
    IF getWinnerInfoErr(W) # ""
    THEN Revert(W, "getWinnerInfo", ZeroAddr, 0, getWinnerInfoErr(W))
    ELSE [W EXCEPT !.out = Call("getWinnerInfo", ZeroAddr, 0, "", W.winningAmount,
                                 W.winner, "none")]

refundAmountFull(W, c) == W.deposits[c]

refundAmountSaturating(W, c) ==
    IF c = W.winner
    THEN (IF W.deposits[c] < W.winningAmount THEN 0
          ELSE W.deposits[c] - W.winningAmount)
    ELSE W.deposits[c]

\* The amount refund() transfers to caller c.
refundAmount(W, c) ==
    IF c = W.winner THEN W.deposits[c] - W.winningAmount ELSE W.deposits[c]

refundErrUngated(W, c) ==
    IF ~onlyAfterAuction(W) THEN "Auction not ended"
    ELSE IF ~(W.deposits[c] > 0) THEN "No deposit"
    ELSE IF W.balance < W.deposits[c] THEN "Transfer failed"
    ELSE ""

refundErr(W, c) ==
    IF ~onlyAfterAuction(W) THEN "Auction not ended"
    ELSE IF ~(W.winner # ZeroAddr /\ W.winningAmount > 0)
         THEN "Winner not announced yet"
    ELSE IF ~(W.deposits[c] > 0) THEN "No deposit"
    ELSE IF refundAmount(W, c) < 0 THEN "Arithmetic underflow"
    ELSE IF W.balance < refundAmount(W, c) THEN "Transfer failed"
    ELSE ""

depositKept(W, c) == W.deposits[c]

\* deposits[msg.sender] = 0
depositAfterRefund(W, c) == 0

refund(W, c) ==
    IF refundErr(W, c) # ""
    THEN Revert(W, "refund", c, 0, refundErr(W, c))
    ELSE [W EXCEPT !.deposits[c] = depositAfterRefund(W, c),
                   !.balance = @ - refundAmount(W, c),
                   !.netDeposited[c] = @ - refundAmount(W, c),
                   !.out = Call("refund", c, 0, "", refundAmount(W, c), c, "none")]

\* ---- actions: one per external function, inputs from small sets ----
\* Callers are drawn from Addr; a call that reverts leaves the state as it is.
SetAuctionItem == \E c \in Addr, item \in Items : Commit(setAuctionItem(World, c, item))

StartAuctionIn(callers, durations, maxSessions) ==
    \E c \in callers, duration \in durations :
        /\ sessions < maxSessions
        /\ Commit(startAuction(World, c, duration))

PlaceBidIn(callers, bidSet, valueSet) ==
    \E c \in callers, bid \in bidSet, value \in valueSet :
        /\ bidCount < MaxBids
        /\ Commit(placeBid(World, c, bid, value))

EndAuction == \E c \in Addr : Commit(endAuction(World, c))

ResetAuction == \E c \in Addr : Commit(resetAuction(World, c))

RequestDecryption == \E c \in Addr : Commit(requestDecryption(World, c))

\* The ids a callback may be called with: those of the requests the oracle
\* holds, and 0 for an id it never signed.
CallbackIds == {0} \cup RequestIds(World)

CallbackDecryptBidder ==
    \E requestId \in CallbackIds : Commit(callbackDecryptBidder(World, requestId))

CallbackDecryptAmount ==
    \E requestId \in CallbackIds : Commit(callbackDecryptAmount(World, requestId))

WithdrawTotalProceeds ==
    \E c \in Addr :
        /\ withdrawals < MaxWithdrawals
        /\ Commit(withdrawTotalProceeds(World, c))

CallbackDecryptTotalAmount ==
    \E requestId \in CallbackIds : Commit(callbackDecryptTotalAmount(World, requestId))

GetWinnerInfo == Commit(getWinnerInfo(World))

Refund == \E c \in Addr : Commit(refund(World, c))

\* block.timestamp advances between transactions.
Tick ==
    /\ now < MaxTime
    /\ Commit([World EXCEPT !.now = @ + 1])

\* The operations that take no input but the caller.
Settle ==
    \/ SetAuctionItem
    \/ EndAuction
    \/ ResetAuction
    \/ RequestDecryption
    \/ CallbackDecryptBidder
    \/ CallbackDecryptAmount
    \/ WithdrawTotalProceeds
    \/ CallbackDecryptTotalAmount
    \/ GetWinnerInfo
    \/ Refund

\* Spec: one session up to its reset, every identity bidding any value while
\* time passes.
StartAuction == StartAuctionIn(Addr, Durations, 1)
PlaceBid == PlaceBidIn(Addr, BidValues, DepositValues)

Next ==
    \/ StartAuction
    \/ PlaceBid
    \/ Tick
    \/ Settle

Spec == Init /\ [][Next]_vars

\* SpecSessions: MaxSessions sessions one after the other, two identities
\* bidding 0 or 100, all within one block time.
SessionAddr == {1, 2}
SessionBidValues == {0, 100}
StartSession == StartAuctionIn(SessionAddr, {0}, MaxSessions)
PlaceSessionBid == PlaceBidIn(SessionAddr, SessionBidValues, DepositValues)

NextSessions ==
    \/ StartSession
    \/ PlaceSessionBid
    \/ Settle

SpecSessions == Init /\ [][NextSessions]_vars

\* SpecReplay: one session of two identities bidding 100 or 300, in which
\* every oracle result is delivered up to MaxDeliver times.
InitReplay == InitAt([InitWorld EXCEPT !.deliveries = MaxDeliver])
ReplayBidValues == {100, 300}
StartReplaySession == StartAuctionIn(SessionAddr, {0}, 1)
PlaceReplayBid == PlaceBidIn(SessionAddr, ReplayBidValues, {200})

NextReplay ==
    \/ StartReplaySession
    \/ PlaceReplayBid
    \/ Settle

SpecReplay == InitReplay /\ [][NextReplay]_vars

\* ================= DeFiContract =================
\* mapping(k => v): absent keys read as the default value, and writing the
\* default (delete) removes the key.
Get(map, k, dflt) == IF k \in DOMAIN map THEN map[k] ELSE dflt
Put(map, k, v, dflt) ==
    IF v = dflt THEN [x \in DOMAIN map \ {k} |-> map[x]]
    ELSE [x \in DOMAIN map \cup {k} |-> IF x = k THEN v ELSE map[x]]

NoProfile == [salary |-> 0, creditScore |-> 0, submitted |-> FALSE]

LendRevert(D, op, c, arg, err) ==
    [D EXCEPT !.out = Call(op, c, arg, err, 0, ZeroAddr, "none")]

\* FHE.requestDecryption(cts, selector): the oracle keeps the plaintexts of
\* the handles, in order, as the cleartexts it will sign.
Issue(D, kind, clear) ==
    [D EXCEPT !.requests = @ \cup
                  {[id |-> D.counterRequest, kind |-> kind, clear |-> clear,
                    done |-> 0]},
              !.counterRequest = @ + 1]

LendRequestIds(D) == {r.id : r \in D.requests}
LendRequest(D, requestId) == CHOOSE r \in D.requests : r.id = requestId
\* FHE.checkSignatures: the cleartexts and proof of an issued request.
lendCheckSignatures(D, requestId) == requestId \in LendRequestIds(D)
LendDelivered(D, requestId) ==
    LET r == LendRequest(D, requestId) IN
    [D EXCEPT !.requests = (@ \ {r}) \cup {[r EXCEPT !.done = @ + 1]}]

onlyLender(D, c) == c = D.lender

depositErr(D, c, value) ==
    IF ~onlyLender(D, c) THEN "Only lender"
    ELSE IF ~(value > 0) THEN "Deposit > 0"
    ELSE ""

deposit(D, c, value, encryptedAmount) ==
    IF depositErr(D, c, value) # ""
    THEN LendRevert(D, "deposit", c, value, depositErr(D, c, value))
    ELSE LET requestId == D.counterRequest
             I == Issue(D, "deposit", <<encryptedAmount>>) IN
         [I EXCEPT !.actualPool = @ + value,
                   !.balance = @ + value,
                   !.pool = FHEadd(@, encryptedAmount),
                   !.expectedDepositAmounts = Put(@, requestId, value, 0),
                   !.decryptionRequestIdDeposit = requestId,
                   !.out = Call("deposit", c, value, "", 0, ZeroAddr, "Deposit")]

callbackVerifyDepositErr(D, requestId) ==
    IF ~lendCheckSignatures(D, requestId) THEN "Invalid signatures"
    ELSE IF LendRequest(D, requestId).clear[1]
                # Get(D.expectedDepositAmounts, requestId, 0) THEN "Mismatch"
    ELSE ""

callbackVerifyDeposit(D, requestId) ==
    IF callbackVerifyDepositErr(D, requestId) # ""
    THEN LendRevert(D, "callbackVerifyDeposit", ZeroAddr, requestId,
                    callbackVerifyDepositErr(D, requestId))
    ELSE [LendDelivered(D, requestId) EXCEPT
              !.expectedDepositAmounts = Put(@, requestId, 0, 0),
              !.out = Call("callbackVerifyDeposit", ZeroAddr, requestId, "", 0,
                            ZeroAddr, "none")]

submitCreditProfile(D, c, salary, score) ==
    IF Get(D.creditProfiles, c, NoProfile).submitted
    THEN LendRevert(D, "submitCreditProfile", c, 0, "Already submitted")
    ELSE [D EXCEPT !.creditProfiles =
                       Put(@, c, [salary |-> salary, creditScore |-> score,
                                  submitted |-> TRUE], NoProfile),
                   !.out = Call("submitCreditProfile", c, 0, "", 0, ZeroAddr,
                                 "CreditSubmitted")]

choosePackageErrRechoose(D, c, packageId) ==
    IF ~(packageId >= 1 /\ packageId <= 3) THEN "Invalid package ID"
    ELSE IF ~Get(D.creditProfiles, c, NoProfile).submitted
         THEN "Submit credit profile first"
    ELSE ""

choosePackageErr(D, c, packageId) ==
    IF ~(packageId >= 1 /\ packageId <= 3) THEN "Invalid package ID"
    ELSE IF ~Get(D.creditProfiles, c, NoProfile).submitted
         THEN "Submit credit profile first"
    ELSE IF Get(D.chosenPackage, c, 0) # 0 THEN "Package already chosen"
    ELSE ""

choosePackage(D, c, packageId) ==
    IF choosePackageErr(D, c, packageId) # ""
    THEN LendRevert(D, "choosePackage", c, packageId,
                    choosePackageErr(D, c, packageId))
    ELSE [D EXCEPT !.chosenPackage = Put(@, c, packageId, 0),
                   !.out = Call("choosePackage", c, packageId, "", 0, ZeroAddr,
                                 "PackageChosen")]

\* FHE.isInitialized(pool) holds from the constructor on.
requestBorrowErr(D, c) ==
    IF Get(D.agreed, c, FALSE) THEN "Active loan exists"
    ELSE IF ~(Get(D.chosenPackage, c, 0) >= 1 /\ Get(D.chosenPackage, c, 0) <= 3)
         THEN "Choose package first"
    ELSE ""

\* total = amount + amount * rate * days / (365 * 100)
totalWithInterest(D, c, amount) ==
    LET pkg == D.packages[Get(D.chosenPackage, c, 0)]
        numerator == FHEmul(FHEmul(amount, pkg.ratePercent), pkg.durationDays)
        interest == FHEdiv(numerator, 365 * 100)
    IN  FHEadd(amount, interest)

requestBorrow(D, c, amount) ==
    IF requestBorrowErr(D, c) # ""
    THEN LendRevert(D, "requestBorrow", c, amount, requestBorrowErr(D, c))
    ELSE LET total == totalWithInterest(D, c, amount)
             requestId == D.counterRequest
             I == Issue(D, "borrow", <<amount, total>>) IN
         [I EXCEPT !.borrowAmounts = Put(@, c, amount, 0),
                   !.totalRepays = Put(@, c, total, 0),
                   !.requestToBorrower = Put(@, requestId, c, ZeroAddr),
                   !.out = Call("requestBorrow", c, amount, "", 0, ZeroAddr,
                                 "BorrowRequested")]

\* abi.decode(cleartexts, (uint64, uint64)) needs two words.
callbackBorrowErr(D, requestId) ==
    IF ~lendCheckSignatures(D, requestId) THEN "Invalid signatures"
    ELSE IF Get(D.requestToBorrower, requestId, ZeroAddr) = ZeroAddr
         THEN "Invalid request"
    ELSE IF Len(LendRequest(D, requestId).clear) < 2 THEN "Decode failed"
    ELSE ""

callbackBorrow(D, requestId) ==
    IF callbackBorrowErr(D, requestId) # ""
    THEN LendRevert(D, "callbackBorrow", ZeroAddr, requestId,
                    callbackBorrowErr(D, requestId))
    ELSE LET borrower == D.requestToBorrower[requestId]
             amount == LendRequest(D, requestId).clear[1]
             totalRepay == LendRequest(D, requestId).clear[2]
             poolReqId == D.counterRequest
             I == Issue(LendDelivered(D, requestId), "check", <<D.pool>>) IN
         [I EXCEPT !.loans = Put(@, borrower, amount, 0),
                   !.decryptedTotalRepay = Put(@, borrower, totalRepay, 0),
                   !.requestToBorrower = Put(@, poolReqId, borrower, ZeroAddr),
                   !.out = Call("callbackBorrow", ZeroAddr, requestId, "", 0,
                                 ZeroAddr, "none")]

\* The loan checked against the decrypted pool and the plaintext pool; the
\* transfer needs the balance; packages[chosenPackage[borrower] - 1] needs a
\* chosen package.
callbackCheckAndTransferErr(D, requestId) ==
    LET borrower == Get(D.requestToBorrower, requestId, ZeroAddr)
        amount == Get(D.loans, borrower, 0) IN
    IF ~lendCheckSignatures(D, requestId) THEN "Invalid signatures"
    ELSE IF borrower = ZeroAddr THEN "Invalid borrower"
    ELSE IF ~(amount <= LendRequest(D, requestId).clear[1]
                /\ amount <= D.actualPool) THEN "Insufficient pool"
    ELSE IF D.balance < amount THEN "Transfer failed"
    ELSE IF Get(D.chosenPackage, borrower, 0) = 0 THEN "Arithmetic underflow"
    ELSE ""

callbackCheckAndTransfer(D, requestId) ==
    IF callbackCheckAndTransferErr(D, requestId) # ""
    THEN LendRevert(D, "callbackCheckAndTransfer", ZeroAddr, requestId,
                    callbackCheckAndTransferErr(D, requestId))
    ELSE LET borrower == D.requestToBorrower[requestId]
             amount == Get(D.loans, borrower, 0) IN
         [LendDelivered(D, requestId) EXCEPT
              !.pool = FHEsub(@, amount),
              !.actualPool = @ - amount,
              !.loans = Put(@, borrower, Get(D.decryptedTotalRepay, borrower, 0), 0),
              !.agreed = Put(@, borrower, TRUE, FALSE),
              !.balance = @ - amount,
              !.borrowAmounts = Put(@, borrower, 0, 0),
              !.totalRepays = Put(@, borrower, 0, 0),
              !.decryptedTotalRepay = Put(@, borrower, 0, 0),
              !.requestToBorrower = Put(@, requestId, ZeroAddr, ZeroAddr),
              !.out = Call("callbackCheckAndTransfer", ZeroAddr, requestId, "",
                            amount, borrower, "BorrowConfirmed")]

repayErr(D, c, value) ==
    IF ~Get(D.agreed, c, FALSE) THEN "No active loan"
    ELSE IF value # Get(D.loans, c, 0) THEN "Incorrect repay amount"
    ELSE ""

repay(D, c, value, encryptedRepayAmount) ==
    IF repayErr(D, c, value) # ""
    THEN LendRevert(D, "repay", c, value, repayErr(D, c, value))
    ELSE LET requestId == D.counterRequest
             I == Issue(D, "repay", <<encryptedRepayAmount>>) IN
         [I EXCEPT !.decryptionRequestIdRepay = requestId,
                   !.requestToBorrower = Put(@, requestId, c, ZeroAddr),
                   !.borrowAmounts = Put(@, c, encryptedRepayAmount, 0),
                   !.balance = @ + value,
                   !.out = Call("repay", c, value, "", 0, ZeroAddr,
                                 "RepayRequested")]

callbackVerifyRepayErr(D, requestId) ==
    LET borrower == Get(D.requestToBorrower, requestId, ZeroAddr) IN
    IF ~lendCheckSignatures(D, requestId) THEN "Invalid signatures"
    ELSE IF requestId # D.decryptionRequestIdRepay THEN "Invalid request ID"
    ELSE IF LendRequest(D, requestId).clear[1] # Get(D.loans, borrower, 0)
         THEN "Repay amount mismatch"
    ELSE ""

callbackVerifyRepay(D, requestId) ==
    IF callbackVerifyRepayErr(D, requestId) # ""
    THEN LendRevert(D, "callbackVerifyRepay", ZeroAddr, requestId,
                    callbackVerifyRepayErr(D, requestId))
    ELSE LET borrower == Get(D.requestToBorrower, requestId, ZeroAddr)
             total == Get(D.loans, borrower, 0) IN
         [LendDelivered(D, requestId) EXCEPT
              !.pool = FHEadd(@, Get(D.borrowAmounts, borrower, 0)),
              !.actualPool = @ + total,
              !.loans = Put(@, borrower, 0, 0),
              !.agreed = Put(@, borrower, FALSE, FALSE),
              !.decryptedTotalRepay = Put(@, borrower, 0, 0),
              !.borrowAmounts = Put(@, borrower, 0, 0),
              !.totalRepays = Put(@, borrower, 0, 0),
              !.decryptionRequestIdRepay = 0,
              !.requestToBorrower = Put(@, requestId, ZeroAddr, ZeroAddr),
              !.out = Call("callbackVerifyRepay", ZeroAddr, requestId, "", 0,
                            borrower, "Repaid")]

withdrawPoolErrNoPending(D, c) ==
    IF ~onlyLender(D, c) THEN "Only lender"
    ELSE ""

withdrawPoolErr(D, c) ==
    IF ~onlyLender(D, c) THEN "Only lender"
    ELSE IF D.decryptionRequestIdPool # 0 THEN "Pending withdrawal"
    ELSE ""

withdrawPool(D, c) ==
    IF withdrawPoolErr(D, c) # ""
    THEN LendRevert(D, "withdrawPool", c, 0, withdrawPoolErr(D, c))
    ELSE [Issue(D, "withdraw", <<D.pool>>) EXCEPT
              !.decryptionRequestIdPool = D.counterRequest,
              !.out = Call("withdrawPool", c, 0, "", 0, ZeroAddr,
                            "WithdrawalRequested")]

callbackWithdrawPoolErr(D, requestId) ==
    IF ~lendCheckSignatures(D, requestId) THEN "Invalid signatures"
    ELSE IF requestId # D.decryptionRequestIdPool THEN "Invalid request"
    ELSE IF ~(LendRequest(D, requestId).clear[1] <= D.actualPool)
         THEN "Insufficient funds"
    ELSE IF D.balance < LendRequest(D, requestId).clear[1] THEN "Transfer failed"
    ELSE ""

callbackWithdrawPool(D, requestId) ==
    IF callbackWithdrawPoolErr(D, requestId) # ""
    THEN LendRevert(D, "callbackWithdrawPool", ZeroAddr, requestId,
                    callbackWithdrawPoolErr(D, requestId))
    ELSE LET amount == LendRequest(D, requestId).clear[1] IN
         [LendDelivered(D, requestId) EXCEPT
              !.pool = 0,
              !.actualPool = 0,
              !.decryptionRequestIdPool = 0,
              !.balance = @ - amount,
              !.out = Call("callbackWithdrawPool", ZeroAddr, requestId, "",
                            amount, D.lender, "PoolWithdrawn")]

\* A view: the name of the caller's package.
getChosenPackage(D, c) ==
    LET id == Get(D.chosenPackage, c, 0) IN
    IF id = 1 THEN "1 month (6% APR)"
    ELSE IF id = 2 THEN "6 months (8% APR)"
    ELSE IF id = 3 THEN "12 months (10% APR)"
    ELSE "None"

\* ---- actions of DeFiContract ----
LendAddr == Borrowers \cup {Lender}
PoolValues == {0, 1000}
PoolAmounts == {500, 1000}
BorrowValues == {1000}
PackageIds == 0..3
Salaries == {5000}
Scores == {700}

\* The auction's variables stay as they are; a reverted call changes nothing.
LendCommit(D) == defi' = [D EXCEPT !.out = NoCall] /\ UNCHANGED auctionVars

\* A call that asks the oracle is followed while ids stay within MaxRequests.
WithinRequests == defi.counterRequest <= MaxRequests

\* The oracle calls a callback with the id of an issued request, each
\* delivered at most the given number of times, or with an id never signed.
LendCallbackIdsUpTo(times) ==
    {0} \cup {r.id : r \in {q \in defi.requests : q.done < times}}

\* SpecLending follows one delivery of each request.
LendCallbackIds == LendCallbackIdsUpTo(1)

Deposit ==
    \E c \in LendAddr, value \in PoolValues, amount \in PoolAmounts :
        WithinRequests /\ LendCommit(deposit(defi, c, value, amount))

CallbackVerifyDeposit ==
    \E id \in LendCallbackIds : LendCommit(callbackVerifyDeposit(defi, id))

SubmitCreditProfile ==
    \E c \in Borrowers, salary \in Salaries, score \in Scores :
        LendCommit(submitCreditProfile(defi, c, salary, score))

ChoosePackage ==
    \E c \in Borrowers, packageId \in PackageIds :
        LendCommit(choosePackage(defi, c, packageId))

RequestBorrow ==
    \E c \in Borrowers, amount \in BorrowValues :
        WithinRequests /\ LendCommit(requestBorrow(defi, c, amount))

CallbackBorrow ==
    \E id \in LendCallbackIds :
        WithinRequests /\ LendCommit(callbackBorrow(defi, id))

CallbackCheckAndTransfer ==
    \E id \in LendCallbackIds : LendCommit(callbackCheckAndTransfer(defi, id))

Repay ==
    \E c \in Borrowers :
        \E value \in {Get(defi.loans, c, 0), 1},
           amount \in {Get(defi.loans, c, 0), 1} :
            WithinRequests /\ LendCommit(repay(defi, c, value, amount))

CallbackVerifyRepay ==
    \E id \in LendCallbackIds : LendCommit(callbackVerifyRepay(defi, id))

WithdrawPool ==
    \E c \in LendAddr : WithinRequests /\ LendCommit(withdrawPool(defi, c))

CallbackWithdrawPool ==
    \E id \in LendCallbackIds : LendCommit(callbackWithdrawPool(defi, id))

GetChosenPackage ==
    \E c \in LendAddr :
        /\ getChosenPackage(defi, c) \in
               {"None", "1 month (6% APR)", "6 months (8% APR)", "12 months (10% APR)"}
        /\ UNCHANGED vars

NextLending ==
    \/ Deposit
    \/ CallbackVerifyDeposit
    \/ SubmitCreditProfile
    \/ ChoosePackage
    \/ RequestBorrow
    \/ CallbackBorrow
    \/ CallbackCheckAndTransfer
    \/ Repay
    \/ CallbackVerifyRepay
    \/ WithdrawPool
    \/ CallbackWithdrawPool
    \/ GetChosenPackage

SpecLending == Init /\ [][NextLending]_vars

\* SpecLoans: the lender funds the pool once and two borrowers, each on the
\* first package, borrow and repay, with up to MaxLoanRequests oracle
\* requests in all; every request is delivered once, to any callback.
LoanPoolValues == {1000}
LoanValues == {400}
LoanPackageIds == {1}

WithinLoanRequests == defi.counterRequest <= MaxLoanRequests

FundPool ==
    \E value \in LoanPoolValues :
        /\ WithinLoanRequests
        /\ defi.balance + value <= MaxPool
        /\ LendCommit(deposit(defi, Lender, value, value))

ChooseLoanPackage ==
    \E c \in Borrowers, packageId \in LoanPackageIds :
        LendCommit(choosePackage(defi, c, packageId))

RequestLoan ==
    \E c \in Borrowers, amount \in LoanValues :
        WithinLoanRequests /\ LendCommit(requestBorrow(defi, c, amount))

CallbackLoan ==
    \E id \in LendCallbackIds :
        WithinLoanRequests /\ LendCommit(callbackBorrow(defi, id))

\* msg.value is the total owed; the encrypted amount is the caller's choice.
RepayLoan ==
    \E c \in Borrowers :
        \E amount \in {Get(defi.loans, c, 0)} \cup LoanValues :
            /\ WithinLoanRequests
            /\ LendCommit(repay(defi, c, Get(defi.loans, c, 0), amount))

NextLoans ==
    \/ FundPool
    \/ SubmitCreditProfile
    \/ ChooseLoanPackage
    \/ RequestLoan
    \/ CallbackLoan
    \/ CallbackCheckAndTransfer
    \/ RepayLoan
    \/ CallbackVerifyRepay

SpecLoans == Init /\ [][NextLoans]_vars

\* ---- helpers of the properties ----
Phase ==
    IF auctionStarted THEN (IF auctionEnded THEN "Ended" ELSE "Started")
    ELSE (IF auctionEnded THEN "Invalid" ELSE "Idle")

Idle == ~auctionStarted /\ ~auctionEnded /\ admin = ZeroAddr

\* The contract's storage, without the environment and the bookkeeping.
Ledger(W) ==
    [admin |-> W.admin, auctionItem |-> W.auctionItem, startTime |-> W.startTime,
     endTime |-> W.endTime, auctionStarted |-> W.auctionStarted,
     auctionEnded |-> W.auctionEnded, isWithdraw |-> W.isWithdraw,
     bids |-> W.bids, deposits |-> W.deposits, bidders |-> W.bidders,
     highestBid |-> W.highestBid, highestBidder |-> W.highestBidder,
     winner |-> W.winner, winningAmount |-> W.winningAmount,
     totalWinningAmount |-> W.totalWinningAmount,
     decryptedTotalWinningAmount |-> W.decryptedTotalWinningAmount,
     decryptionRequestIdBidder |-> W.decryptionRequestIdBidder,
     decryptionRequestIdAmount |-> W.decryptionRequestIdAmount,
     decryptionRequestIdTotalAmount |-> W.decryptionRequestIdTotalAmount]

\* How many times the request with this id was delivered.
DeliveredTimes(W, requestId) ==
    IF requestId = 0 THEN 0
    ELSE IF requestId \in RequestIds(W) THEN Request(W, requestId).done
    ELSE W.deliveries

\* C1. Admin exclusivity: from Idle, the first startAuction succeeds and makes
\* its caller admin with startTime = now and endTime = now + duration; every
\* startAuction after it, by any identity, fails with "Auction already
\* started" and leaves admin, startTime and endTime as the first call set them.
AdminExclusivity ==
    \A c \in Addr, d \in Durations :
        LET R == startAuction(World, c, d) IN
        IF Idle
        THEN /\ R.out.err = ""
             /\ R.admin = c
             /\ R.startTime = now
             /\ R.endTime = now + d
             /\ R.auctionStarted
             /\ \A c2 \in Addr, d2 \in Durations :
                    LET R2 == startAuction(R, c2, d2) IN
                    /\ R2.out.err = "Auction already started"
                    /\ Ledger(R2) = Ledger(R)
        ELSE /\ R.out.err = "Auction already started"
             /\ R.admin = admin
             /\ R.startTime = startTime
             /\ R.endTime = endTime

\* C1 witness: an auction was started and another identity's startAuction
\* is refused.
AdminExclusivityWitness ==
    /\ auctionStarted
    /\ sessions = 1
    /\ \E c \in Addr :
        /\ c # admin
        /\ startAuction(World, c, 0).out.err = "Auction already started"

\* C2. The phase changes only Idle -> Started (a session starts, an admin is
\* set), Started -> Ended (only endAuction's flag changes) and Ended -> Idle
\* (the reset, admin unset); started = false with ended = true never occurs.
PhaseStep ==
    \/ Phase' = Phase
    \/ Phase = "Idle" /\ Phase' = "Started" /\ sessions' = sessions + 1
                      /\ admin = ZeroAddr /\ admin' # ZeroAddr
    \/ Phase = "Started" /\ Phase' = "Ended" /\ admin' = admin /\ admin # ZeroAddr
    \/ Phase = "Ended" /\ Phase' = "Idle" /\ admin' = ZeroAddr

PhaseTransitions == [](Phase # "Invalid") /\ [][PhaseStep]_vars

\* C2 witness: a second session has gone through Started to Ended.
PhaseTransitionsWitness == sessions = 2 /\ Phase = "Ended"

\* ---- bids ----
RECURSIVE MaxOf(_)
MaxOf(seq) ==
    IF Len(seq) = 1 THEN seq[1]
    ELSE LET m == MaxOf(Tail(seq)) IN IF seq[1] >= m THEN seq[1] ELSE m

FirstIndexOf(seq, v) ==
    CHOOSE i \in 1..Len(seq) : seq[i] = v /\ \A j \in 1..(i - 1) : seq[j] # v

\* C3. Running maximum: once bids v1..vn were placed in the session,
\* highestBid is max(v1..vn) and highestBidder is the first bidder that
\* submitted that maximum, bids of value 0 included.
RunningMaximum ==
    bidValues # <<>> =>
        /\ highestBid = MaxOf(bidValues)
        /\ highestBidder = bidders[FirstIndexOf(bidValues, MaxOf(bidValues))]

\* ---- the reveal ----
SessionRequested == decryptionRequestIdBidder # 0

BothDeliveredOnce ==
    /\ SessionRequested
    /\ DeliveredTimes(World, decryptionRequestIdBidder) = 1
    /\ DeliveredTimes(World, decryptionRequestIdAmount) = 1

BothPending ==
    /\ SessionRequested
    /\ DeliveredTimes(World, decryptionRequestIdBidder) = 0
    /\ DeliveredTimes(World, decryptionRequestIdAmount) = 0

Announced(R) == R.out.event = "AuctionWinnerAnnounced"

DeliverBidder(W) == callbackDecryptBidder(W, W.decryptionRequestIdBidder)
DeliverAmount(W) == callbackDecryptAmount(W, W.decryptionRequestIdAmount)

Between(W) ==
    {<<"none", 0>>, <<"getWinnerInfo", 0>>}
        \cup {<<"refund", c>> : c \in Addr}
        \cup {<<"withdrawTotalProceeds", c>> : c \in Addr}
        \cup {<<"callbackDecryptTotalAmount", r>> : r \in RequestIds(W)}

Apply(W, x) ==
    CASE x[1] = "none" -> W
      [] x[1] = "getWinnerInfo" -> getWinnerInfo(W)
      [] x[1] = "refund" -> refund(W, x[2])
      [] x[1] = "withdrawTotalProceeds" -> withdrawTotalProceeds(W, x[2])
      [] x[1] = "callbackDecryptTotalAmount" -> callbackDecryptTotalAmount(W, x[2])

Settlement(W) ==
    [winner |-> W.winner, winningAmount |-> W.winningAmount,
     totalWinningAmount |-> W.totalWinningAmount, isWithdraw |-> W.isWithdraw,
     deposits |-> W.deposits]

\* The scenario A:100, B:300, C:200, each with deposit 300, up to the request.
ScenarioRequested ==
    LET S0 == startAuction(InitWorld, 1, 1)
        S1 == placeBid(S0, 1, 100, 300)
        S2 == placeBid(S1, 2, 300, 300)
        S3 == placeBid(S2, 3, 200, 300)
    IN  requestDecryption(endAuction(S3, 1), 1)

ScenarioSettles ==
    LET AB == DeliverAmount(DeliverBidder(ScenarioRequested))
        BA == DeliverBidder(DeliverAmount(ScenarioRequested)) IN
    /\ Settlement(AB) = Settlement(BA)
    /\ AB.winner = 2 /\ AB.winningAmount = 300

SameSettlement(W, x) ==
    Settlement(DeliverAmount(Apply(DeliverBidder(W), x)))
        = Settlement(DeliverBidder(Apply(DeliverAmount(W), x)))

\* C5 as stated. Order-independent settlement: with both requests of the
\* session pending, delivering the bidder callback, then any one operation,
\* then the amount callback gives the same winner, winningAmount,
\* totalWinningAmount, isWithdraw and deposits as delivering the amount
\* callback, then that operation, then the bidder callback; and the scenario
\* A:100, B:300, C:200 settles on winner B and amount 300 in both orders.
OrderIndependentSettlementAny ==
    /\ ScenarioSettles
    /\ BothPending => \A x \in Between(World) : SameSettlement(World, x)

\* C5 as amended. The same, for every operation between the two callbacks
\* except a delivered callbackDecryptTotalAmount: nothing, getWinnerInfo, a
\* refund attempt or a withdrawTotalProceeds request.
OrderIndependentSettlement ==
    /\ ScenarioSettles
    /\ BothPending =>
        \A x \in Between(World) :
            x[1] # "callbackDecryptTotalAmount" => SameSettlement(World, x)

\* C5 witness: both requests are pending over a non-zero highest bid, with a
\* proceeds request pending beside them.
OrderIndependentSettlementWitness ==
    /\ BothPending
    /\ highestBid > 0
    /\ highestBidder # ZeroAddr
    /\ \E r \in requests : r.kind = "total"

\* ---- refund ----
\* C6. Refund exactness: a refund() that succeeds for caller c with deposit d
\* transfers to c exactly d when c is not the winner, and exactly d - w when
\* c is the winner (then w <= d); the balance drops by that amount and no
\* other identity's deposit changes.
RefundExactness ==
    \A c \in Addr :
        LET R == refund(World, c)
            d == deposits[c]
            w == winningAmount IN
        R.out.err = "" =>
            /\ R.out.to = c
            /\ c # winner => R.out.paid = d
            /\ c = winner => (w <= d /\ R.out.paid = d - w)
            /\ R.balance = balance - R.out.paid
            /\ \A o \in Addr \ {c} : R.deposits[o] = deposits[o]

\* C6 witness: the winner has taken its refund and left the winning amount.
RefundExactnessWitness ==
    /\ auctionEnded
    /\ winner # ZeroAddr
    /\ winningAmount > 0
    /\ deposits[winner] = 0
    /\ netDeposited[winner] = winningAmount

\* C7. Refund once: a refund() that succeeds zeroes the caller's deposit, and
\* the same caller's next refund() fails with "No deposit" and transfers
\* nothing; a caller with no deposit is never paid; what an identity got back
\* through refund never exceeds what it deposited through placeBid.
RefundOnce ==
    \A c \in Addr :
        LET R == refund(World, c)
            R2 == refund(R, c) IN
        /\ R.out.err = "" =>
            /\ R.deposits[c] = 0
            /\ R2.out.err = "No deposit"
            /\ R2.out.paid = 0
            /\ R2.balance = R.balance
        /\ deposits[c] = 0 => (R.out.err # "" /\ R.out.paid = 0 /\ R.balance = balance)
        /\ netDeposited[c] >= deposits[c]
        /\ deposits[c] >= 0

\* C7 witness: a bidder of this session that lost has been refunded, and its
\* next refund() is refused.
RefundOnceWitness ==
    \E c \in Addr :
        /\ \E i \in 1..Len(bidders) : bidders[i] = c
        /\ c # winner
        /\ deposits[c] = 0
        /\ refund(World, c).out.err = "No deposit"

OneCallbackLanded ==
    /\ SessionRequested
    /\ (DeliveredTimes(World, decryptionRequestIdBidder) = 0)
        # (DeliveredTimes(World, decryptionRequestIdAmount) = 0)

\* C8. Reveal gating: while the phase is not Ended, refund() and
\* getWinnerInfo() fail with "Auction not ended"; while it is Ended and winner
\* or winningAmount is zero, they fail with "Winner not announced yet"; either
\* way nothing is paid. With only one of the two callbacks landed, one of the
\* two is still zero.
RevealGating ==
    /\ ~auctionEnded =>
        /\ getWinnerInfo(World).out.err = "Auction not ended"
        /\ \A c \in Addr :
            /\ refund(World, c).out.err = "Auction not ended"
            /\ Ledger(refund(World, c)) = Ledger(World)
            /\ refund(World, c).balance = balance
    /\ (auctionEnded /\ (winner = ZeroAddr \/ winningAmount = 0)) =>
        /\ getWinnerInfo(World).out.err = "Winner not announced yet"
        /\ \A c \in Addr :
            /\ refund(World, c).out.err = "Winner not announced yet"
            /\ Ledger(refund(World, c)) = Ledger(World)
            /\ refund(World, c).balance = balance
    /\ OneCallbackLanded => (winner = ZeroAddr \/ winningAmount = 0)

\* C8 witness: the bidder callback alone has landed, and a depositor's
\* refund() is refused.
RevealGatingWitness ==
    /\ auctionEnded
    /\ OneCallbackLanded
    /\ winner # ZeroAddr
    /\ \E c \in Addr :
        /\ deposits[c] > 0
        /\ refund(World, c).out.err = "Winner not announced yet"

SessionFields(W) ==
    [admin |-> W.admin, auctionItem |-> W.auctionItem, startTime |-> W.startTime,
     endTime |-> W.endTime, auctionStarted |-> W.auctionStarted,
     auctionEnded |-> W.auctionEnded, bids |-> W.bids, bidders |-> W.bidders,
     highestBid |-> W.highestBid, highestBidder |-> W.highestBidder,
     winner |-> W.winner, winningAmount |-> W.winningAmount,
     requestedBidder |-> W.decryptionRequestIdBidder # 0,
     requestedAmount |-> W.decryptionRequestIdAmount # 0]

\* One cycle from W: a starts, b bids v with deposit d, a ends and requests
\* the reveal, both callbacks land, x asks for its refund. The outcome of each
\* call, the amount refunded and the session fields at the end.
Cycle(W, a, b, v, d, x) ==
    LET S1 == startAuction(W, a, 0)
        S2 == placeBid(S1, b, v, d)
        S3 == endAuction(S2, a)
        S4 == requestDecryption(S3, a)
        S5 == DeliverBidder(S4)
        S6 == DeliverAmount(S5)
        S7 == refund(S6, x)
    IN  [errs |-> <<S1.out.err, S2.out.err, S3.out.err, S4.out.err,
                    S5.out.err, S6.out.err, S7.out.err>>,
         paid |-> S7.out.paid,
         fields |-> SessionFields(S7)]

\* A session that ran to its reveal and was reset.
AfterCompletedSession ==
    /\ Idle
    /\ sessions >= 1
    /\ counterRequest >= 3
    /\ requests = {}

\* C10. Idempotent reset: after a completed session and resetAuction, a
\* start/bid/end/decrypt/refund cycle has, call by call, the outcome it has
\* after deployment, and the same effect on the session fields.
IdempotentReset ==
    AfterCompletedSession =>
        \A a \in SessionAddr, b \in SessionAddr, x \in SessionAddr,
           v \in SessionBidValues, d \in DepositValues :
            Cycle(World, a, b, v, d, x)
                = Cycle([InitWorld EXCEPT !.now = now], a, b, v, d, x)

\* ---- requests to the oracle ----
\* C11. Withdrawal lock: when withdrawTotalProceeds has succeeded and the
\* admin calls it again before callbackDecryptTotalAmount was delivered, the
\* second call fails and issues no second oracle request.
WithdrawalLock ==
    \A c \in Addr :
        LET R == withdrawTotalProceeds(World, c)
            R2 == withdrawTotalProceeds(R, c) IN
        R.out.err = "" =>
            /\ R2.out.err # ""
            /\ R2.requests = R.requests
            /\ R2.decryptionRequestIdTotalAmount = R.decryptionRequestIdTotalAmount

\* The requests issued by the step: those with an id the counter had not
\* reached before it.
IssuedKinds == {r.kind : r \in {q \in requests' : q.id >= counterRequest}}

\* While a bidder request id is stored, a step either is the reset or leaves
\* both stored ids as they are and issues no reveal request; reveal requests
\* are issued only by the step that stores their ids, one of each kind.
NoRearmStep ==
    /\ decryptionRequestIdBidder # 0 =>
        \/ /\ ~auctionStarted'
           /\ decryptionRequestIdBidder' = 0
           /\ decryptionRequestIdAmount' = 0
           /\ requests' = requests
        \/ /\ decryptionRequestIdBidder' = decryptionRequestIdBidder
           /\ decryptionRequestIdAmount' = decryptionRequestIdAmount
           /\ IssuedKinds \subseteq {"total"}
    /\ (decryptionRequestIdBidder = 0 /\ IssuedKinds # {} /\ IssuedKinds # {"total"}) =>
        /\ IssuedKinds = {"bidder", "amount"}
        /\ counterRequest' = counterRequest + 2
        /\ decryptionRequestIdBidder' = counterRequest
        /\ decryptionRequestIdAmount' = counterRequest + 1
        /\ auctionEnded /\ auctionEnded'
        /\ sessions' = sessions

NoRearmCall ==
    decryptionRequestIdBidder # 0 =>
        \A c \in Addr :
            LET R == requestDecryption(World, c) IN
            /\ R.out.err # ""
            /\ c = admin => R.out.err = "Decryption already requested"
            /\ R.decryptionRequestIdBidder = decryptionRequestIdBidder
            /\ R.decryptionRequestIdAmount = decryptionRequestIdAmount
            /\ R.requests = requests
            /\ R.counterRequest = counterRequest

\* C12. requestDecryption cannot be re-armed: while the stored bidder request
\* id is non-zero, requestDecryption fails (for the admin: "Decryption already
\* requested") and leaves both stored ids and the oracle's requests as they
\* are; so a session issues at most one bidder and one amount request, whether
\* or not the oracle answers.
NoRearm == []NoRearmCall /\ [][NoRearmStep]_vars

\* C12 witness: in a second session the reveal was requested, the oracle has
\* not answered, and the admin's requestDecryption is refused.
NoRearmWitness ==
    /\ sessions = 2
    /\ BothPending
    /\ requestDecryption(World, admin).out.err = "Decryption already requested"

\* A callback that was refused: it changed nothing.
Refused(W, R) ==
    /\ R.out.err # ""
    /\ Ledger(R) = Ledger(W)
    /\ R.balance = W.balance
    /\ R.requests = W.requests
    /\ R.announced = W.announced

\* C13. Stale or wrong callback ids are rejected: a callback called with an
\* id other than the one stored for its kind (an id of another kind, an id of
\* a session that was reset, an id a later request replaced, an id never
\* issued) fails, with "Invalid request ID" when the oracle signed for it, and
\* changes nothing; the callback with the stored id succeeds afterwards as it
\* would have before.
StaleCallbackRejected ==
    /\ \A id \in CallbackIds :
        /\ id # decryptionRequestIdBidder =>
            LET R == callbackDecryptBidder(World, id)
                s == decryptionRequestIdBidder IN
            /\ Refused(World, R)
            /\ id \in RequestIds(World) => R.out.err = "Invalid request ID"
            /\ callbackDecryptBidder(World, s).out.err = "" =>
                /\ callbackDecryptBidder(R, s).out.err = ""
                /\ Ledger(callbackDecryptBidder(R, s))
                       = Ledger(callbackDecryptBidder(World, s))
        /\ id # decryptionRequestIdAmount =>
            LET R == callbackDecryptAmount(World, id)
                s == decryptionRequestIdAmount IN
            /\ Refused(World, R)
            /\ id \in RequestIds(World) => R.out.err = "Invalid request ID"
            /\ callbackDecryptAmount(World, s).out.err = "" =>
                /\ callbackDecryptAmount(R, s).out.err = ""
                /\ Ledger(callbackDecryptAmount(R, s))
                       = Ledger(callbackDecryptAmount(World, s))
        /\ id # decryptionRequestIdTotalAmount =>
            LET R == callbackDecryptTotalAmount(World, id)
                s == decryptionRequestIdTotalAmount IN
            /\ Refused(World, R)
            /\ id \in RequestIds(World) => R.out.err = "Invalid request ID"
            /\ callbackDecryptTotalAmount(World, s).out.err = "" =>
                /\ callbackDecryptTotalAmount(R, s).out.err = ""
                /\ Ledger(callbackDecryptTotalAmount(R, s))
                       = Ledger(callbackDecryptTotalAmount(World, s))
    /\ \A c \in Addr :
        LET s == decryptionRequestIdTotalAmount
            W2 == withdrawTotalProceeds(World, c)
            R == callbackDecryptTotalAmount(W2, s) IN
        (s \in RequestIds(World) /\ W2.out.err = "") =>
            /\ Refused(W2, R)
            /\ R.out.err = "Invalid request ID"

\* C13 witness: the bidder request of a session that was reset is still with
\* the oracle while the next session has its own requests pending; its
\* delivery is refused with "Invalid request ID".
StaleCallbackRejectedWitness ==
    /\ sessions = 2
    /\ BothPending
    /\ \E r \in requests :
        /\ r.kind = "bidder"
        /\ r.id # decryptionRequestIdBidder
        /\ callbackDecryptBidder(World, r.id).out.err = "Invalid request ID"

\* C14. Guard against duplicate delivery: once callbackDecryptBidder (resp.
\* callbackDecryptAmount) has succeeded for a request id, calling it again
\* with that id in the same session changes nothing: winningAmount is not
\* added to totalWinningAmount again and AuctionWinnerAnnounced is not
\* emitted again, so a session announces its winner at most once.
DuplicateDeliveryGuard ==
    /\ announced <= 1
    /\ \A id \in CallbackIds :
        /\ LET R == callbackDecryptBidder(World, id)
               R2 == callbackDecryptBidder(R, id) IN
           R.out.err = "" =>
               /\ Ledger(R2) = Ledger(R)
               /\ ~Announced(R2)
        /\ LET R == callbackDecryptAmount(World, id)
               R2 == callbackDecryptAmount(R, id) IN
           R.out.err = "" =>
               /\ Ledger(R2) = Ledger(R)
               /\ R2.totalWinningAmount = R.totalWinningAmount
               /\ ~Announced(R2)

\* ---- invariants of the ledger ----
AdminStep ==
    /\ (auctionStarted /\ auctionStarted') => admin' = admin
    /\ admin' # admin =>
        \/ admin = ZeroAddr /\ Phase = "Idle" /\ Phase' = "Started"
        \/ admin' = ZeroAddr /\ Phase = "Ended" /\ Phase' = "Idle"

\* C15. admin is unset only in phase Idle: whenever auctionStarted holds an
\* admin is set, and it is the same identity from startAuction until
\* resetAuction, which alone unsets it.
AdminSetWhileStarted ==
    /\ [](admin = ZeroAddr => Phase = "Idle")
    /\ [](auctionStarted => admin # ZeroAddr)
    /\ [][AdminStep]_vars

\* C15 witness: the admin of a second session is still set after the auction
\* ended and the reveal was requested.
AdminSetWhileStartedWitness ==
    /\ sessions = 2
    /\ auctionEnded
    /\ SessionRequested
    /\ admin # ZeroAddr

\* C16 as stated. In every state winner is non-zero if and only if
\* winningAmount is non-zero.
WinnerIffAmount == (winner # ZeroAddr) <=> (winningAmount # 0)

BidderDelivered == DeliveredTimes(World, decryptionRequestIdBidder) > 0
AmountDelivered == DeliveredTimes(World, decryptionRequestIdAmount) > 0

\* C16 as amended. Each callback sets its own half: winner is non-zero only
\* once the bidder callback was delivered, winningAmount only once the amount
\* callback was, and when both or neither were delivered winner is non-zero
\* if and only if winningAmount is.
RevealedTogether ==
    /\ winner # ZeroAddr => BidderDelivered
    /\ winningAmount # 0 => AmountDelivered
    /\ (BidderDelivered <=> AmountDelivered) =>
        ((winner # ZeroAddr) <=> (winningAmount # 0))

\* C16 witness: both callbacks were delivered after bids of 0 and of 100, and
\* both halves are non-zero.
RevealedTogetherWitness ==
    /\ BidderDelivered
    /\ AmountDelivered
    /\ winner # ZeroAddr
    /\ winningAmount = 100
    /\ \E i \in 1..Len(bidValues) : bidValues[i] = 0

HighestPairMatched ==
    \/ highestBid = 0 /\ highestBidder = ZeroAddr
    \/ \E i \in 1..Len(bidders) :
        bidders[i] = highestBidder /\ bidValues[i] = highestBid

HighestPairStep ==
    /\ highestBidder' # highestBidder => highestBid' # highestBid
    /\ highestBid' # highestBid =>
        \/ highestBid' = 0 /\ highestBidder' = ZeroAddr /\ bidders' = <<>>
        \/ /\ highestBid' > highestBid
           /\ bidders' # <<>>
           /\ highestBidder' = bidders'[Len(bidders')]
           /\ highestBid' = bidValues'[Len(bidValues')]

\* C17. highestBid and highestBidder are a matched pair: both at their
\* initial value, or highestBidder placed in this session a bid equal to
\* highestBid; no step changes highestBidder without highestBid, and
\* highestBid changes only together with the bidder that bid it (or with the
\* reset of both).
HighestPair == []HighestPairMatched /\ [][HighestPairStep]_vars

\* C17 witness: a second, higher bid by another identity replaced the pair.
HighestPairWitness ==
    /\ Len(bidders) = 2
    /\ bidValues = <<100, 300>>
    /\ bidders[1] # bidders[2]
    /\ highestBid = 300
    /\ highestBidder = bidders[2]

\* ---- guards of the operations ----
BidLedger(W) ==
    [bids |-> W.bids, deposits |-> W.deposits, bidders |-> W.bidders,
     highestBid |-> W.highestBid, highestBidder |-> W.highestBidder,
     balance |-> W.balance]

\* C18. placeBid succeeds exactly when auctionStarted, not auctionEnded,
\* startTime <= now <= endTime and the deposit is > 0; otherwise it fails,
\* with "Auction not active" when the auction is not active and "Deposit
\* required" when only the deposit is missing, and bids, deposits, bidders,
\* highestBid and highestBidder stay as they are. A bid after endTime is
\* rejected also when endAuction was not called.
PlaceBidGuard ==
    \A c \in Addr, bid \in BidValues, value \in DepositValues :
        LET R == placeBid(World, c, bid, value)
            active == /\ auctionStarted /\ ~auctionEnded
                      /\ startTime <= now /\ now <= endTime IN
        /\ R.out.err = "" <=> (active /\ value > 0)
        /\ ~active => R.out.err = "Auction not active"
        /\ (active /\ ~(value > 0)) => R.out.err = "Deposit required"
        /\ R.out.err # "" => (BidLedger(R) = BidLedger(World) /\ Ledger(R) = Ledger(World))
        /\ R.out.err = "" =>
            /\ R.bidders = Append(bidders, c)
            /\ R.bids[c] = bid
            /\ R.deposits[c] = deposits[c] + value

\* C18 witness: the auction is started and not ended, endTime has passed, and
\* a bid with a deposit is refused.
PlaceBidGuardWitness ==
    /\ auctionStarted
    /\ ~auctionEnded
    /\ now > endTime
    /\ placeBid(World, 1, 100, 200).out.err = "Auction not active"

AdminOnlyCalls(W, c) ==
    {setAuctionItem(W, c, "lot"), endAuction(W, c), requestDecryption(W, c),
     resetAuction(W, c), withdrawTotalProceeds(W, c)}

\* C19. Role model: setAuctionItem, endAuction, requestDecryption,
\* resetAuction and withdrawTotalProceeds fail with "Only admin can call this"
\* for every caller that is not the admin, in every phase, and change
\* nothing; while no admin is set none of them succeeds for any caller.
RoleModel ==
    \A c \in Addr :
        c # admin =>
            \A R \in AdminOnlyCalls(World, c) :
                /\ R.out.err = "Only admin can call this"
                /\ Ledger(R) = Ledger(World)
                /\ R.requests = requests
                /\ R.balance = balance

\* C19 witness: after the auction ended a bidder that is not the admin is
\* refused the reset that the admin may do.
RoleModelWitness ==
    /\ auctionEnded
    /\ resetAuction(World, admin).out.err = ""
    /\ \E c \in Addr :
        /\ c # admin
        /\ deposits[c] > 0
        /\ resetAuction(World, c).out.err = "Only admin can call this"

EndAuctionCall ==
    \A c \in Addr :
        LET R == endAuction(World, c) IN
        /\ R.out.err = "" <=> (Phase = "Started" /\ c = admin)
        /\ R.out.err = "" =>
            /\ R.auctionStarted /\ R.auctionEnded
            /\ Ledger(R) = [Ledger(World) EXCEPT !.auctionEnded = TRUE]
        /\ R.out.err # "" => Ledger(R) = Ledger(World)
        /\ (c = admin /\ Phase = "Ended") => R.out.err = "Cannot end auction"

NoBidUnlessStarted ==
    Phase # "Started" =>
        \A c \in Addr, bid \in BidValues, value \in DepositValues :
            placeBid(World, c, bid, value).out.err = "Auction not active"

BidStep == bidCount' # bidCount => (Phase = "Started" /\ Phase' = "Started")

\* C20. endAuction succeeds only from phase Started (for the admin) and moves
\* to Ended; from Idle and from Ended it fails, for the admin of an ended
\* auction with "Cannot end auction". Once the phase is Ended no placeBid
\* succeeds until resetAuction and a new startAuction: bids are accepted only
\* by steps within phase Started.
EndAuctionClosesBidding ==
    /\ [](EndAuctionCall /\ NoBidUnlessStarted)
    /\ [][BidStep]_vars

\* C20 witness: after a session ended and was reset, a bid was accepted in
\* the next session.
EndAuctionClosesBiddingWitness ==
    /\ sessions = 2
    /\ Phase = "Started"
    /\ bidders # <<>>

\* C21. resetAuction succeeds exactly from phase Ended with the admin as
\* caller; after it the phase is Idle, admin is unset, item, startTime,
\* endTime, winner, winningAmount, highestBid, highestBidder, bids, bidders
\* and the bidder and amount request ids are at their initial values, and the
\* next startAuction by any identity succeeds and makes that identity admin.
ResetReadmits ==
    \A c \in Addr :
        LET R == resetAuction(World, c) IN
        /\ R.out.err = "" <=> (Phase = "Ended" /\ c = admin)
        /\ R.out.err = "" =>
            /\ SessionFields(R) = SessionFields(InitWorld)
            /\ R.decryptionRequestIdBidder = 0
            /\ R.decryptionRequestIdAmount = 0
            /\ \A c2 \in Addr, d \in Durations :
                LET S == startAuction(R, c2, d) IN
                /\ S.out.err = ""
                /\ S.admin = c2
                /\ S.auctionStarted /\ ~S.auctionEnded

\* C21 witness: a session with a bidder was reset and another identity than
\* that bidder started the next one, which has no bidders yet.
ResetReadmitsWitness ==
    /\ sessions = 2
    /\ Phase = "Started"
    /\ bidders = <<>>
    /\ \E c \in Addr : netDeposited[c] > 0 /\ c # admin

Outstanding(kind) == {r \in requests : r.kind = kind /\ r.done = 0}

BookkeptKind(kind, stored) ==
    /\ Cardinality(Outstanding(kind)) <= 1
    /\ stored # 0 <=> \E r \in Outstanding(kind) : r.id = stored

\* C22. Pending-request bookkeeping: for each kind of request (bidder,
\* amount, total) at most one request is outstanding at the oracle, and the
\* id stored for the kind is non-zero exactly when that request is
\* outstanding.
PendingBookkeeping ==
    /\ BookkeptKind("bidder", decryptionRequestIdBidder)
    /\ BookkeptKind("amount", decryptionRequestIdAmount)
    /\ BookkeptKind("total", decryptionRequestIdTotalAmount)

\* Every call one identity or the oracle can make in state W.
AllCalls(W) ==
    UNION {
        {setAuctionItem(W, c, item) : c \in Addr, item \in Items},
        {startAuction(W, c, d) : c \in Addr, d \in Durations},
        UNION {{placeBid(W, c, bid, value) : c \in Addr, bid \in BidValues}
                  : value \in DepositValues},
        {endAuction(W, c) : c \in Addr},
        {resetAuction(W, c) : c \in Addr},
        {requestDecryption(W, c) : c \in Addr},
        {withdrawTotalProceeds(W, c) : c \in Addr},
        {refund(W, c) : c \in Addr},
        {getWinnerInfo(W)},
        {callbackDecryptBidder(W, id) : id \in {0} \cup RequestIds(W)},
        {callbackDecryptAmount(W, id) : id \in {0} \cup RequestIds(W)},
        {callbackDecryptTotalAmount(W, id) : id \in {0} \cup RequestIds(W)}}

LoanCalls(D, b) ==
    UNION {
        {choosePackage(D, b, packageId) : packageId \in PackageIds},
        {requestBorrow(D, b, amount) : amount \in BorrowValues},
        {repay(D, b, Get(D.loans, b, 0), Get(D.loans, b, 0))},
        {callbackBorrow(D, id) : id \in LendRequestIds(D)},
        {callbackCheckAndTransfer(D, id) : id \in LendRequestIds(D)},
        {callbackVerifyRepay(D, id) : id \in LendRequestIds(D)}}

Chosen(D, b) == Get(D.chosenPackage, b, 0)

PackageKept ==
    \A b \in LendAddr :
        Chosen(defi, b) # 0 =>
            /\ Chosen(defi, b) \in 1..3
            /\ \A R \in LoanCalls(defi, b) : Chosen(R, b) = Chosen(defi, b)
            /\ \A packageId \in 1..3 :
                choosePackage(defi, b, packageId).out.err = "Package already chosen"
            /\ getChosenPackage(defi, b) # "None"

PackageStep ==
    \A b \in LendAddr : Chosen(defi, b) # 0 => Chosen(defi', b) = Chosen(defi, b)

\* C24. Persisted package choice: once chosenPackage[borrower] is 1, 2 or 3,
\* no operation (requestBorrow, the borrow callbacks, repay, its callback, a
\* further choosePackage) changes it; it remains after the repayment, and a
\* second choosePackage fails with "Package already chosen".
PersistedPackageChoice == []PackageKept /\ [][PackageStep]_vars

\* C24 witness: a borrower's repayment was verified, the loan is cleared and
\* the package chosen before it is still recorded.
PersistedPackageChoiceWitness ==
    \E b \in Borrowers :
        /\ Chosen(defi, b) = 2
        /\ ~Get(defi.agreed, b, FALSE)
        /\ \E r \in defi.requests : r.kind = "repay" /\ r.done = 1
        /\ choosePackage(defi, b, 1).out.err = "Package already chosen"

\* ================= effects of the auction's operations =================
\* C25. Callback B effects: a successful callbackDecryptAmount with decoded
\* amount a sets winningAmount = a, adds exactly a to totalWinningAmount, sets
\* isWithdraw = false, emits AuctionWinnerAnnounced exactly when winner is
\* already non-zero, and leaves every other field of the ledger (winner,
\* deposits, phase flags, request ids) and the balance as they were.
CallbackAmountEffects ==
    \A id \in CallbackIds :
        LET R == callbackDecryptAmount(World, id) IN
        R.out.err = "" =>
            LET a == Request(World, id).clear IN
            /\ R.winningAmount = a
            /\ R.totalWinningAmount = totalWinningAmount + a
            /\ ~R.isWithdraw
            /\ Announced(R) <=> winner # ZeroAddr
            /\ Ledger(R) = [Ledger(World) EXCEPT
                               !.winningAmount = a,
                               !.totalWinningAmount = totalWinningAmount + a,
                               !.isWithdraw = FALSE]
            /\ R.balance = balance
            /\ R.out.paid = 0

\* C25 witness: proceeds had been withdrawn (isWithdraw set) before the
\* amount callback of a bid landed; the amount is accumulated and the lock is
\* cleared.
CallbackAmountEffectsWitness ==
    /\ AmountDelivered
    /\ withdrawals = 1
    /\ decryptionRequestIdTotalAmount = 0
    /\ ~isWithdraw
    /\ winningAmount > 0
    /\ totalWinningAmount = winningAmount

\* C26. Callback C effects: a successful callbackDecryptTotalAmount with
\* decoded amount t sets decryptedTotalWinningAmount = t, zeroes
\* totalWinningAmount, clears the stored total request id, sets isWithdraw,
\* transfers exactly t to the current admin and emits TotalProceedsWithdrawn;
\* when the balance is below t the callback fails and changes nothing.
CallbackTotalEffects ==
    \A id \in CallbackIds :
        LET R == callbackDecryptTotalAmount(World, id) IN
        /\ R.out.err = "" =>
            LET t == Request(World, id).clear IN
            /\ Ledger(R) = [Ledger(World) EXCEPT
                               !.decryptedTotalWinningAmount = t,
                               !.totalWinningAmount = 0,
                               !.decryptionRequestIdTotalAmount = 0,
                               !.isWithdraw = TRUE]
            /\ R.out.paid = t
            /\ R.out.to = admin
            /\ R.out.event = "TotalProceedsWithdrawn"
            /\ R.balance = balance - t
            /\ R.balance >= 0
        /\ (id \in RequestIds(World) /\ id = decryptionRequestIdTotalAmount
                /\ balance < Request(World, id).clear) =>
            /\ R.out.err = "Transfer failed"
            /\ Refused(World, R)

\* C26 witness: accumulated proceeds were paid out to the admin.
CallbackTotalEffectsWitness ==
    /\ decryptedTotalWinningAmount > 0
    /\ isWithdraw
    /\ totalWinningAmount = 0
    /\ decryptionRequestIdTotalAmount = 0
    /\ admin # ZeroAddr

\* C27. placeBid bookkeeping: a successful placeBid by c with deposit x
\* overwrites bids[c] with the new bid, sets deposits[c] to its previous
\* value plus x, appends c to bidders and changes no other identity's bid or
\* deposit; highestBid never decreases, so a lower repeat bid by the highest
\* bidder leaves it as it is.
PlaceBidBookkeeping ==
    \A c \in Addr, bid \in BidValues, x \in DepositValues :
        LET R == placeBid(World, c, bid, x) IN
        R.out.err = "" =>
            /\ R.bids[c] = bid
            /\ R.deposits[c] = deposits[c] + x
            /\ R.bidders = Append(bidders, c)
            /\ \A o \in Addr \ {c} :
                R.bids[o] = bids[o] /\ R.deposits[o] = deposits[o]
            /\ R.balance = balance + x
            /\ R.highestBid >= highestBid
            /\ (c = highestBidder /\ bid <= highestBid) =>
                (R.highestBid = highestBid /\ R.highestBidder = c)

\* C27 witness: the highest bidder bid again, lower: its stored bid is the
\* lower one, its deposits added up, and highestBid is still the first bid.
PlaceBidBookkeepingWitness ==
    /\ bidValues = <<300, 100>>
    /\ bidders[1] = bidders[2]
    /\ bids[bidders[1]] = 100
    /\ deposits[bidders[1]] = 400
    /\ highestBid = 300
    /\ highestBidder = bidders[1]

\* C28. setAuctionItem succeeds exactly for the admin, in phase Started and
\* in phase Ended alike, and changes only auctionItem; in phase Idle no admin
\* is set, it fails for every caller and the item is empty.
SetItemByAdmin ==
    /\ \A c \in Addr, item \in Items :
        LET R == setAuctionItem(World, c, item) IN
        /\ R.out.err = "" <=> (c = admin /\ Phase \in {"Started", "Ended"})
        /\ R.out.err = "" =>
            Ledger(R) = [Ledger(World) EXCEPT !.auctionItem = item]
        /\ R.out.err # "" => Ledger(R) = Ledger(World)
    /\ Phase = "Idle" => auctionItem = ""

\* C28 witness: the item is set in an auction that has ended, and the admin
\* may set it again.
SetItemByAdminWitness ==
    /\ auctionEnded
    /\ auctionItem = "lot"
    /\ setAuctionItem(World, admin, "lot").out.err = ""

\* The revealed winner holds a deposit below the revealed amount.
Underfunded(c) ==
    /\ auctionEnded
    /\ c = winner
    /\ winningAmount > 0
    /\ deposits[c] > 0
    /\ deposits[c] < winningAmount

UnderfundedCall ==
    \A c \in Addr :
        Underfunded(c) =>
            LET R == refund(World, c) IN
            /\ R.out.err = "Arithmetic underflow"
            /\ R.out.paid = 0
            /\ R.deposits[c] = deposits[c]
            /\ Refused(World, R)

UnderfundedStep ==
    \A c \in Addr :
        (Underfunded(c) /\ auctionStarted') =>
            /\ deposits'[c] = deposits[c]
            /\ netDeposited'[c] = netDeposited[c]
            /\ winningAmount' = winningAmount
            /\ winner' = winner

\* C29. A winner whose deposit is below the revealed amount: its refund()
\* fails with an arithmetic fault, transfers nothing and leaves its deposit
\* as it was, and no step of the session changes that deposit, so it is not
\* refunded in that session.
UnderfundedWinner == []UnderfundedCall /\ [][UnderfundedStep]_vars

\* C29 witness: the winner bid 300 on a deposit of 200.
UnderfundedWinnerWitness ==
    /\ winner # ZeroAddr
    /\ Underfunded(winner)
    /\ winningAmount = 300
    /\ deposits[winner] = 200

RECURSIVE SumOver(_, _)
SumOver(f, set) ==
    IF set = {} THEN 0
    ELSE LET x == CHOOSE y \in set : TRUE IN f[x] + SumOver(f, set \ {x})

\* The winner of the session, also before the bidder callback revealed it.
SessionWinner == IF winner # ZeroAddr THEN winner ELSE highestBidder

\* What the contract owes its depositors: every recorded deposit, less the
\* winning amount while the winner's deposit is still recorded.
Owed ==
    SumOver(deposits, Addr)
        - (IF SessionWinner # ZeroAddr /\ deposits[SessionWinner] > 0
           THEN winningAmount ELSE 0)

\* Every bid of the session was placed with at least its value deposited.
BidsCovered == \A c \in Addr : deposits[c] >= bids[c]

\* C30. Solvency: when every bid was placed with a deposit of at least its
\* value, the balance is at least the recorded deposits less the winning
\* amount owed by a winner that has not refunded, in every state across
\* sessions, resets and withdrawals; so no refund that passes its guards
\* fails at the transfer.
Solvency ==
    BidsCovered =>
        /\ balance >= Owed
        /\ \A c \in Addr : refund(World, c).out.err # "Transfer failed"

\* ---- withdrawals in flight ----
\* C31. No proceeds are lost to a withdrawal race: a callbackDecryptTotalAmount
\* that succeeds transfers the value the accumulator holds at that moment,
\* also when callbackDecryptAmount accumulated between the request and the
\* delivery; so what it zeroes is what it paid.
NoWithdrawalRace ==
    \A requestId \in CallbackIds :
        LET R == callbackDecryptTotalAmount(World, requestId) IN
        R.out.err = "" =>
            /\ R.out.paid = totalWinningAmount
            /\ R.totalWinningAmount = 0

\* C32. Proceeds go to the requester: a callbackDecryptTotalAmount that
\* succeeds transfers to the admin that issued the withdrawTotalProceeds
\* request it answers, also after a resetAuction and a startAuction by
\* another identity; never to the zero identity or to a later admin.
ProceedsToRequester ==
    \A requestId \in CallbackIds :
        LET R == callbackDecryptTotalAmount(World, requestId) IN
        R.out.err = "" =>
            /\ R.out.to # ZeroAddr
            /\ R.out.to = Request(World, requestId).by

\* C33. Refund liveness: in a session that ended with at least one bid, once
\* both reveal callbacks were delivered the winner and the amount are
\* non-zero, so refund() passes its announcement guard for every identity
\* with a deposit, whatever the bid values, bids of 0 included.
RefundLiveness ==
    (auctionEnded /\ Len(bidders) > 0 /\ BothDeliveredOnce) =>
        /\ winner # ZeroAddr
        /\ winningAmount > 0
        /\ \A c \in Addr :
            deposits[c] > 0 => refundErr(World, c) # "Winner not announced yet"

\* While isWithdraw is set: no withdrawal request id is stored, so every
\* callbackDecryptTotalAmount is rejected, and every withdrawTotalProceeds
\* fails without issuing a request.
WithdrawnLocked ==
    isWithdraw =>
        /\ decryptionRequestIdTotalAmount = 0
        /\ \A requestId \in CallbackIds :
            LET R == callbackDecryptTotalAmount(World, requestId) IN
            R.out.err # "" /\ Refused(World, R)
        /\ \A c \in Addr :
            LET R == withdrawTotalProceeds(World, c) IN
            /\ R.out.err # ""
            /\ c = admin => R.out.err = "Decryption already requested"
            /\ Refused(World, R)

\* A callbackDecryptTotalAmount that succeeds answers the stored request and
\* sets isWithdraw; with a further withdrawTotalProceeds issued first, the
\* earlier request is rejected before and after the later one is answered.
OneWithdrawalCall ==
    /\ \A requestId \in CallbackIds :
        LET R == callbackDecryptTotalAmount(World, requestId) IN
        R.out.err = "" =>
            /\ requestId = decryptionRequestIdTotalAmount
            /\ ~isWithdraw
            /\ R.isWithdraw
            /\ R.decryptionRequestIdTotalAmount = 0
    /\ \A c \in Addr :
        LET earlier == decryptionRequestIdTotalAmount
            R1 == withdrawTotalProceeds(World, c)
            later == R1.decryptionRequestIdTotalAmount
            R2 == callbackDecryptTotalAmount(R1, later) IN
        (earlier \in RequestIds(World) /\ R1.out.err = "") =>
            /\ later # earlier
            /\ callbackDecryptTotalAmount(R1, earlier).out.err = "Invalid request ID"
            /\ R2.out.err = "" =>
                /\ callbackDecryptTotalAmount(R2, earlier).out.err
                        = "Invalid request ID"
                /\ \A d \in Addr : withdrawTotalProceeds(R2, d).out.err # ""

\* isWithdraw is set only by the step that answers the stored withdrawal
\* request, and cleared only by a callbackDecryptAmount that succeeds.
OneWithdrawalStep ==
    /\ (~isWithdraw /\ isWithdraw') =>
        /\ decryptionRequestIdTotalAmount # 0
        /\ decryptionRequestIdTotalAmount' = 0
        /\ totalWinningAmount' = 0
    /\ (isWithdraw /\ ~isWithdraw') =>
        \E requestId \in CallbackIds :
            LET R == callbackDecryptAmount(World, requestId) IN
            /\ R.out.err = ""
            /\ winningAmount' = R.winningAmount
            /\ totalWinningAmount' = R.totalWinningAmount

\* C34. At most one completed withdrawal per reveal: a successful
\* callbackDecryptTotalAmount sets isWithdraw; while it is set every
\* withdrawTotalProceeds fails and every callbackDecryptTotalAmount is
\* rejected, also for an earlier outstanding request; only a successful
\* callbackDecryptAmount clears it. So between two successful
\* callbackDecryptAmount, and before the first, at most one
\* callbackDecryptTotalAmount succeeds, however many requests were issued.
OneWithdrawalPerReveal ==
    [](WithdrawnLocked /\ OneWithdrawalCall) /\ [][OneWithdrawalStep]_vars

\* C34 witness: proceeds were accumulated and a withdrawal request is
\* outstanding; a second request can be issued and answered, after which
\* the earlier one is rejected.
OneWithdrawalPerRevealWitness ==
    /\ totalWinningAmount > 0
    /\ ~isWithdraw
    /\ decryptionRequestIdTotalAmount \in RequestIds(World)
    /\ LET R1 == withdrawTotalProceeds(World, admin)
           R2 == callbackDecryptTotalAmount(R1, R1.decryptionRequestIdTotalAmount) IN
       /\ R1.out.err = ""
       /\ R2.out.err = ""
       /\ R2.out.paid > 0
       /\ callbackDecryptTotalAmount(R2, decryptionRequestIdTotalAmount).out.err
            = "Invalid request ID"

\* ---- deposits across sessions ----
\* A resetAuction that succeeds writes neither deposits nor isWithdraw nor
\* the stored withdrawal request id, and transfers nothing.
ResetKeeps ==
    \A c \in Addr :
        LET R == resetAuction(World, c) IN
        R.out.err = "" =>
            /\ R.deposits = deposits
            /\ R.isWithdraw = isWithdraw
            /\ R.decryptionRequestIdTotalAmount = decryptionRequestIdTotalAmount
            /\ R.balance = balance
            /\ R.out.paid = 0

\* A deposit goes down only by the refund() of its holder, which passes the
\* guards of the session it is called in and pays against that session's
\* winner and winningAmount.
DepositStep ==
    \A c \in Addr :
        deposits'[c] < deposits[c] =>
            LET R == refund(World, c) IN
            /\ auctionEnded
            /\ winner # ZeroAddr
            /\ winningAmount > 0
            /\ R.out.err = ""
            /\ deposits'[c] = 0
            /\ balance' = balance - R.out.paid
            /\ R.out.paid = IF c = winner THEN deposits[c] - winningAmount
                             ELSE deposits[c]

\* C35. resetAuction leaves deposits, isWithdraw and the stored withdrawal
\* request id as they are: a deposit that was not refunded before the reset
\* is still recorded in the following sessions, and is paid out only by a
\* refund() that passes the guards of the session it is called in, against
\* that session's winner and winningAmount.
ResetKeepsDeposits == []ResetKeeps /\ [][DepositStep]_vars

\* The deposit of c was placed in an earlier session: c holds one and has
\* not bid in this session.
CarriedOver(c) ==
    /\ deposits[c] > 0
    /\ \A i \in 1..Len(bidders) : bidders[i] # c

\* C35 witness: in the second session, after its reveal, an identity whose
\* deposit was carried over the reset is refunded it in full.
ResetKeepsDepositsWitness ==
    /\ sessions = 2
    /\ winner # ZeroAddr
    /\ \E c \in Addr :
        /\ CarriedOver(c)
        /\ c # winner
        /\ refund(World, c).out.err = ""
        /\ refund(World, c).out.paid = deposits[c]

\* ================= properties of DeFiContract =================
\* C36. Decrypt, verify, then transfer: a callbackCheckAndTransfer that
\* succeeds answers the pool request that the callbackBorrow of the
\* borrower's requestBorrow issued, with the loan amount at most the decrypted
\* pool and at most actualPool, pays that amount to the borrower and leaves
\* actualPool non-negative; one that fails transfers nothing and leaves pool,
\* actualPool, loans and agreed as they are.
DecryptVerifyTransfer ==
    \A requestId \in LendCallbackIds :
        LET R == callbackCheckAndTransfer(defi, requestId)
            borrower == Get(defi.requestToBorrower, requestId, ZeroAddr)
            amount == Get(defi.loans, borrower, 0) IN
        IF R.out.err = ""
        THEN /\ LendRequest(defi, requestId).kind = "check"
             /\ amount <= LendRequest(defi, requestId).clear[1]
             /\ amount <= defi.actualPool
             /\ R.out.paid = amount
             /\ R.out.to = borrower
             /\ R.actualPool = defi.actualPool - amount
             /\ R.actualPool >= 0
        ELSE /\ R.out.paid = 0
             /\ R.pool = defi.pool
             /\ R.actualPool = defi.actualPool
             /\ R.loans = defi.loans
             /\ R.agreed = defi.agreed
             /\ R.balance = defi.balance

\* C37. One active loan per borrower: agreed[borrower] is set by the loan
\* transfer and cleared only by the completed repayment, so a
\* callbackCheckAndTransfer succeeds only for a borrower without an active
\* loan, also after several requestBorrow calls, and leaves loans[borrower]
\* at the total owed for what it disbursed.
OneActiveLoan ==
    \A requestId \in LendCallbackIds :
        LET R == callbackCheckAndTransfer(defi, requestId)
            borrower == Get(defi.requestToBorrower, requestId, ZeroAddr) IN
        R.out.err = "" =>
            /\ ~Get(defi.agreed, borrower, FALSE)
            /\ Get(R.loans, borrower, 0)
                    = totalWithInterest(defi, borrower, R.out.paid)

\* R is D after a callbackVerifyRepay that completed the repayment of
\* borrower: the loan is cleared and actualPool is credited with the total.
RepaidIn(D, R, borrower, total) ==
    /\ R.out.err = ""
    /\ Get(R.loans, borrower, 0) = 0
    /\ ~Get(R.agreed, borrower, FALSE)
    /\ R.actualPool = D.actualPool + total

\* C38. Repayment completes under interleaving: for a repay() that is
\* accepted with the payment and the encrypted amount both equal to
\* loans[borrower], the delivery of its callbackVerifyRepay clears the loan
\* and credits actualPool, also when another borrower's repay() was accepted
\* between the two.
RepayCompletes ==
    \A borrower \in Borrowers :
        LET total == Get(defi.loans, borrower, 0)
            R1 == repay(defi, borrower, total, total)
            requestId == R1.decryptionRequestIdRepay IN
        R1.out.err = "" =>
            /\ RepaidIn(R1, callbackVerifyRepay(R1, requestId), borrower, total)
            /\ \A other \in Borrowers \ {borrower} :
                LET owed == Get(R1.loans, other, 0)
                    R2 == repay(R1, other, owed, owed) IN
                R2.out.err = "" =>
                    RepaidIn(R2, callbackVerifyRepay(R2, requestId), borrower, total)

\* C39. Pool accounting: the contract's balance is at least actualPool in
\* every state, so no transfer that passed 'amount <= actualPool' fails for
\* lack of funds.
PoolCovered ==
    /\ defi.balance >= defi.actualPool
    /\ \A requestId \in LendCallbackIds :
        /\ callbackCheckAndTransfer(defi, requestId).out.err # "Transfer failed"
        /\ callbackWithdrawPool(defi, requestId).out.err # "Transfer failed"

\* While a pool request id is stored, every withdrawPool fails, for the
\* lender with "Pending withdrawal", and changes nothing.
PendingWithdrawalCall ==
    defi.decryptionRequestIdPool # 0 =>
        \A c \in LendAddr :
            LET R == withdrawPool(defi, c) IN
            /\ R.out.err # ""
            /\ c = defi.lender => R.out.err = "Pending withdrawal"
            /\ [R EXCEPT !.out = NoCall] = defi

\* A callbackWithdrawPool that succeeds answers the stored request with an
\* amount of at most actualPool, transfers it to the lender, and zeroes
\* actualPool and the stored id.
WithdrawPoolCall ==
    \A requestId \in LendCallbackIds :
        LET R == callbackWithdrawPool(defi, requestId) IN
        R.out.err = "" =>
            /\ requestId = defi.decryptionRequestIdPool
            /\ R.out.paid = LendRequest(defi, requestId).clear[1]
            /\ R.out.paid <= defi.actualPool
            /\ R.out.to = defi.lender
            /\ R.balance = defi.balance - R.out.paid
            /\ R.actualPool = 0
            /\ R.decryptionRequestIdPool = 0

\* A stored pool request id is replaced by no step, and cleared only by the
\* callbackWithdrawPool that answers it.
PendingWithdrawalStep ==
    defi.decryptionRequestIdPool # 0 =>
        \/ defi'.decryptionRequestIdPool = defi.decryptionRequestIdPool
        \/ LET R == callbackWithdrawPool(defi, defi.decryptionRequestIdPool) IN
           /\ R.out.err = ""
           /\ defi' = [R EXCEPT !.out = NoCall]
           /\ defi'.decryptionRequestIdPool = 0

\* C40. Single pending pool withdrawal: while the stored pool request id is
\* non-zero every further withdrawPool fails with "Pending withdrawal"; the
\* id is cleared only by a callbackWithdrawPool that succeeds, which
\* transfers the decrypted amount to the lender, only when it is at most
\* actualPool, and sets actualPool to zero.
SinglePendingWithdrawal ==
    [](PendingWithdrawalCall /\ WithdrawPoolCall) /\ [][PendingWithdrawalStep]_vars

\* C40 witness: a withdrawal of a funded pool is pending: the lender's
\* further withdrawPool fails, and the callback would pay the pool out.
SinglePendingWithdrawalWitness ==
    /\ defi.decryptionRequestIdPool # 0
    /\ defi.actualPool > 0
    /\ withdrawPool(defi, Lender).out.err = "Pending withdrawal"
    /\ LET R == callbackWithdrawPool(defi, defi.decryptionRequestIdPool) IN
       /\ R.out.err = ""
       /\ R.out.paid > 0
       /\ R.out.to = Lender
       /\ R.actualPool = 0

====
